---- MODULE Spec2Model ----
(***************************************************************************)
(* Model of the permission system of MultiCord-Templates                   *)
(* (src/cogs/permissions): the PermissionManager state machine, its two    *)
(* TTL caches, the guild configurations, the overrides and the audit log.  *)
(*                                                                         *)
(* Time (time.time() and datetime.now()) is one integer clock `now`, in    *)
(* seconds.  A user, a channel and a guild handed to an operation are      *)
(* records carrying what the code reads from the discord.py object.        *)
(***************************************************************************)
EXTENDS Integers, Sequences, FiniteSets, TLC

VARIABLES
    phase,                  \* "constructed" until the database step is over, then "running"
    persistence,            \* TRUE when self.persistence is set
    nodes,                  \* self.nodes: node name -> PermissionNode
    guild_configs,          \* self.guild_configs: guild id -> GuildPermissionConfig
    user_permission_cache,  \* <<user id, guild id>> -> [level, timestamp, stale]
    permission_check_cache, \* <<user id, node, channel id, guild id>> -> [result, timestamp, stale]
    overrides,              \* self.overrides: sequence of PermissionOverride
    audit_log,              \* self.audit_log: sequence of PermissionAuditEntry
    check_count,            \* self.check_count
    cache_hits,             \* self.cache_hits
    now,                    \* the clock
    lastOp,                 \* the last operation, its arguments and its outcome
    mutations,              \* ghost: the mutating operations and the commands invoked so far
    member_roles,           \* Discord's side: the roles member 2 of G1 has had, as <<since, roles>>
    pending                 \* the tasks suspended at an await: what each has left to do

vars == <<phase, persistence, nodes, guild_configs, user_permission_cache,
          permission_check_cache, overrides, audit_log, check_count,
          cache_hits, now, lastOp, mutations, member_roles, pending>>

-----------------------------------------------------------------------------
(* PermissionLevel (IntEnum) *)

BANNED == -1
EVERYONE == 0
MEMBER == 10
MODERATOR == 50
LEAD_MOD == 65
ADMIN == 80
LEAD_ADMIN == 90
OWNER == 100
BOT_ADMIN == 150
BOT_OWNER == 200

PermissionLevel ==
    {BANNED, EVERYONE, MEMBER, MODERATOR, LEAD_MOD, ADMIN, LEAD_ADMIN, OWNER,
     BOT_ADMIN, BOT_OWNER}

(* PermissionScope (Enum) *)
PermissionScope == {"global", "guild", "category", "channel", "role"}

(* RoleType (Enum) *)
RoleType ==
    {"authority", "bot", "integration", "cosmetic", "functional", "temporary",
     "unknown"}

(* Python's None for an id, a level or a time: `x if x else 0` in the code. *)
None == 0
NoLevel == -2
NoExpiry == -1

cache_ttl == 300

-----------------------------------------------------------------------------
(* The objects handed to the operations. *)

NoGuild == [id |-> None, owner_id |-> None]
NoChannel == [id |-> None, category |-> None]

(* bot.config.OWNER_IDS *)
OWNER_IDS == {3}

(* PermissionNode(name, default_level, description, scope_restrictions,   *)
(* role_restrictions)                                                      *)
PermissionNode(level, scopes, roles) ==
    [default_level |-> level, scope_restrictions |-> scopes,
     role_restrictions |-> roles]

(* _register_default_nodes: the registry after construction. *)
register_default_nodes ==
    [n \in {"basic.ping", "basic.info", "basic.help", "basic.avatar",
            "basic.uptime"} |-> PermissionNode(EVERYONE, {}, {})]
    @@ [n \in {"utility.userinfo", "utility.serverinfo", "utility.roleinfo"}
            |-> PermissionNode(MEMBER, {}, {})]
    @@ [n \in {"moderation.warn", "moderation.mute", "moderation.kick",
               "moderation.ban"} |-> PermissionNode(MODERATOR, {}, {})]
    @@ [n \in {"moderation.mass_ban", "moderation.lockdown",
               "moderation.purge"} |-> PermissionNode(LEAD_MOD, {}, {})]
    @@ [n \in {"admin.settings", "admin.permissions", "admin.reload"}
            |-> PermissionNode(ADMIN, {}, {})]
    @@ [n \in {"admin.server_config", "admin.audit_logs",
               "admin.permission_management"}
            |-> PermissionNode(LEAD_ADMIN, {}, {})]
    @@ [n \in {"owner.shutdown"} |-> PermissionNode(OWNER, {}, {})]
    @@ [n \in {"owner.eval"} |-> PermissionNode(BOT_OWNER, {}, {})]

(* GuildPermissionConfig(guild_id): the dataclass defaults.  A mapping is *)
(* a function whose domain is the set of its keys.                         *)
EmptyMap == [x \in {} |-> NoLevel]

GuildPermissionConfig ==
    [role_mappings |-> EmptyMap, role_classifications |-> EmptyMap,
     node_overrides |-> EmptyMap, auto_configured |-> FALSE,
     configured_by |-> None, configured_at |-> NoExpiry]

(* dict[key] = value *)
Put(map, key, value) ==
    [k \in (DOMAIN map) \cup {key} |-> IF k = key THEN value ELSE map[k]]

(* {k: v} *)
Map1(k, v) == [x \in {k} |-> v]

(* dict.update(other) *)
Update(map, other) ==
    [k \in (DOMAIN map) \cup (DOMAIN other) |->
        IF k \in DOMAIN other THEN other[k] ELSE map[k]]

(* del dict[key] when the key is present *)
Del(map, key) == [k \in (DOMAIN map) \ {key} |-> map[k]]

-----------------------------------------------------------------------------
(* GuildPermissionConfig.get_required_level(node, default_nodes) *)

(* The variant that looks in the registry before the guild's overrides. *)
get_required_level_nodefirst(config, node, default_nodes) ==
    IF node \in DOMAIN default_nodes THEN default_nodes[node].default_level
    ELSE IF node \in DOMAIN config.node_overrides
         THEN config.node_overrides[node]
    ELSE OWNER

get_required_level(config, node, default_nodes) ==
    IF node \in DOMAIN config.node_overrides THEN config.node_overrides[node]
    ELSE IF node \in DOMAIN default_nodes
         THEN default_nodes[node].default_level
    ELSE OWNER

(* PermissionManager.get_guild_config: the configurations after the call, *)
(* which creates the guild's configuration when it has none.               *)
get_guild_config(configs, guild_id) ==
    IF guild_id \in DOMAIN configs THEN configs
    ELSE Put(configs, guild_id, GuildPermissionConfig)

(* The configuration get_guild_config returns. *)
ConfigOf(configs, guild_id) == get_guild_config(configs, guild_id)[guild_id]

-----------------------------------------------------------------------------
(* PermissionManager._is_user_banned(user_id, guild) *)

is_user_banned(ovs, user_id, guild) ==
    \/ \E i \in 1..Len(ovs) :
        /\ ovs[i].target_type = "user"
        /\ ovs[i].target_id = user_id
        /\ ovs[i].scope_type = "global"
        /\ ~ovs[i].granted
    \/ /\ guild # NoGuild
       /\ \E i \in 1..Len(ovs) :
            /\ ovs[i].target_type = "user"
            /\ ovs[i].target_id = user_id
            /\ ovs[i].scope_type = "guild"
            /\ ovs[i].scope_id = guild.id
            /\ ~ovs[i].granted

(* PermissionManager._analyze_user_discord_permissions(user) *)
mod_perms ==
    {"kick_members", "ban_members", "manage_messages", "moderate_members"}

trusted_perms ==
    {"external_emojis", "attach_files", "embed_links", "create_public_threads"}

TrustedNeeded == 2

(* The variant that leaves moderate_members out of the moderation test. *)
analyze_user_discord_permissions_nomoderate(user) ==
    IF user.guild_permissions \cap (mod_perms \ {"moderate_members"}) # {}
    THEN MODERATOR
    ELSE IF Cardinality(user.guild_permissions \cap trusted_perms)
            >= TrustedNeeded
         THEN MEMBER
    ELSE EVERYONE

analyze_user_discord_permissions(user) ==
    IF user.guild_permissions \cap mod_perms # {} THEN MODERATOR
    ELSE IF Cardinality(user.guild_permissions \cap trusted_perms)
            >= TrustedNeeded
         THEN MEMBER
    ELSE EVERYONE

(* max over the mapped roles of the user, starting from EVERYONE *)
MaxMappedLevel(config, user) ==
    LET mapped == {config.role_mappings[r] :
                     r \in user.roles \cap DOMAIN config.role_mappings}
        above == {l \in mapped : l > EVERYONE}
    IN  IF above = {} THEN EVERYONE
        ELSE CHOOSE l \in above : \A k \in above : k <= l

(* PermissionManager._calculate_user_permission_level(user, guild): the   *)
(* level, and the configurations after the call.                           *)
(* The variant that tests the ban before the owner allowlist. *)
calculate_user_permission_level_banfirst(ovs, configs, user, guild) ==
    IF is_user_banned(ovs, user.id, guild)
    THEN [level |-> BANNED, configs |-> configs]
    ELSE IF user.id \in OWNER_IDS
    THEN [level |-> BOT_OWNER, configs |-> configs]
    ELSE IF guild = NoGuild \/ ~user.member
    THEN [level |-> EVERYONE, configs |-> configs]
    ELSE IF guild.owner_id = user.id
    THEN [level |-> OWNER, configs |-> configs]
    ELSE LET config == ConfigOf(configs, guild.id)
             mapped == MaxMappedLevel(config, user)
         IN  [level |->
                IF "administrator" \in user.guild_permissions
                THEN IF \E r \in user.roles \cap DOMAIN config.role_mappings :
                            config.role_mappings[r] = LEAD_ADMIN
                     THEN LEAD_ADMIN ELSE ADMIN
                ELSE IF mapped = EVERYONE
                     THEN analyze_user_discord_permissions(user)
                     ELSE mapped,
              configs |-> get_guild_config(configs, guild.id)]

calculate_user_permission_level(ovs, configs, user, guild) ==
    IF user.id \in OWNER_IDS
    THEN [level |-> BOT_OWNER, configs |-> configs]
    ELSE IF is_user_banned(ovs, user.id, guild)
    THEN [level |-> BANNED, configs |-> configs]
    ELSE IF guild = NoGuild \/ ~user.member
    THEN [level |-> EVERYONE, configs |-> configs]
    ELSE IF guild.owner_id = user.id
    THEN [level |-> OWNER, configs |-> configs]
    ELSE LET config == ConfigOf(configs, guild.id)
             mapped == MaxMappedLevel(config, user)
         IN  [level |->
                IF "administrator" \in user.guild_permissions
                THEN IF \E r \in user.roles \cap DOMAIN config.role_mappings :
                            config.role_mappings[r] = LEAD_ADMIN
                     THEN LEAD_ADMIN ELSE ADMIN
                ELSE IF mapped = EVERYONE
                     THEN analyze_user_discord_permissions(user)
                     ELSE mapped,
              configs |-> get_guild_config(configs, guild.id)]

-----------------------------------------------------------------------------
(* PermissionManager._override_applies_to_context(override, channel, guild) *)

override_applies_to_context(override, channel, guild) ==
    CASE override.scope_type = "global" -> TRUE
      [] override.scope_type = "guild" ->
            guild # NoGuild /\ guild.id = override.scope_id
      [] override.scope_type = "channel" ->
            channel # NoChannel /\ channel.id = override.scope_id
      [] override.scope_type = "category" ->
            /\ channel # NoChannel
            /\ channel.category # None
            /\ channel.category = override.scope_id
      [] OTHER -> FALSE

(* scope_priority.get(scope_type, 0) *)
scope_priority(scope_type) ==
    CASE scope_type = "channel" -> 4
      [] scope_type = "category" -> 3
      [] scope_type = "guild" -> 2
      [] scope_type = "global" -> 1
      [] OTHER -> 0

(* list.sort(key = scope priority, reverse = True): a stable sort, so the *)
(* overrides of one priority keep the order of the list.                   *)
SortByScope(seq) ==
    LET OfPriority(p) ==
            SelectSeq(seq, LAMBDA o : scope_priority(o.scope_type) = p)
    IN  OfPriority(4) \o OfPriority(3) \o OfPriority(2) \o OfPriority(1)
        \o OfPriority(0)

(* The overrides _check_overrides collects for the user and the node. *)
applicable_overrides(ovs, user, node, guild, t) ==
    SelectSeq(ovs, LAMBDA o :
        /\ o.permission_node = node
        /\ ~(o.expires_at # NoExpiry /\ t > o.expires_at)
        /\ \/ o.target_type = "user" /\ o.target_id = user.id
           \/ /\ o.target_type = "role"
              /\ guild # NoGuild
              /\ user.member
              /\ o.target_id \in user.roles)

(* Optional[bool]: None, or the granted flag of the override that decides. *)
NoOverride == [is_none |-> TRUE, granted |-> FALSE]

(* PermissionManager._check_overrides(user, permission_node, channel, guild) *)
(* The variant that takes the overrides in list order, unsorted. *)
check_overrides_unsorted(ovs, user, node, channel, guild, t) ==
    LET sorted == applicable_overrides(ovs, user, node, guild, t)
        hits == {i \in 1..Len(sorted) :
                    override_applies_to_context(sorted[i], channel, guild)}
    IN  IF hits = {} THEN NoOverride
        ELSE LET first == CHOOSE i \in hits : \A j \in hits : i <= j
             IN  [is_none |-> FALSE, granted |-> sorted[first].granted]

check_overrides(ovs, user, node, channel, guild, t) ==
    LET sorted == SortByScope(applicable_overrides(ovs, user, node, guild, t))
        hits == {i \in 1..Len(sorted) :
                    override_applies_to_context(sorted[i], channel, guild)}
    IN  IF hits = {} THEN NoOverride
        ELSE LET first == CHOOSE i \in hits : \A j \in hits : i <= j
             IN  [is_none |-> FALSE, granted |-> sorted[first].granted]

(* PermissionManager._check_scope_restrictions(node, channel, guild) *)
(* The variant that does not look at the channel's category. *)
check_scope_restrictions_nocategory(node, channel, guild) ==
    \/ node.scope_restrictions = {}
    \/ channel # NoChannel /\ channel.id \in node.scope_restrictions

check_scope_restrictions(node, channel, guild) ==
    \/ node.scope_restrictions = {}
    \/ channel # NoChannel /\ channel.id \in node.scope_restrictions
    \/ /\ channel # NoChannel
       /\ channel.category # None
       /\ channel.category \in node.scope_restrictions

(* PermissionManager._check_role_restrictions(node, user, guild) *)
check_role_restrictions(node, user, guild) ==
    \/ node.role_restrictions = {}
    \/ /\ guild # NoGuild
       /\ user.member
       /\ node.role_restrictions \cap user.roles # {}

-----------------------------------------------------------------------------
(* The PermissionManager object: the fields its methods read and write.    *)
(* A method is an operator from the object (and the clock t) to the object *)
(* after the call and the value returned.                                  *)

Self ==
    [nodes |-> nodes, guild_configs |-> guild_configs,
     user_permission_cache |-> user_permission_cache,
     permission_check_cache |-> permission_check_cache,
     overrides |-> overrides, audit_log |-> audit_log,
     check_count |-> check_count, cache_hits |-> cache_hits,
     persistence |-> persistence]

Commit(self) ==
    /\ nodes' = self.nodes
    /\ guild_configs' = self.guild_configs
    /\ user_permission_cache' = self.user_permission_cache
    /\ permission_check_cache' = self.permission_check_cache
    /\ overrides' = self.overrides
    /\ audit_log' = self.audit_log
    /\ check_count' = self.check_count
    /\ cache_hits' = self.cache_hits
    /\ persistence' = self.persistence

(* A cache entry is (value, timestamp); `stale` is a ghost flag, set when  *)
(* the in-memory configuration changes after the entry was computed.       *)
CacheEntry(value, t) == [value |-> value, timestamp |-> t, stale |-> FALSE]

(* `time.time() - timestamp < self.cache_ttl` *)
fresh(entry, t) == t - entry.timestamp < cache_ttl

(* PermissionManager.get_user_permission_level(user, guild) *)
get_user_permission_level(self, user, guild, t) ==
    LET cache_key == <<user.id, guild.id>>
        cache == self.user_permission_cache
    IN  IF cache_key \in DOMAIN cache /\ fresh(cache[cache_key], t)
        THEN [level |-> cache[cache_key].value,
              self |-> [self EXCEPT !.cache_hits = @ + 1]]
        ELSE LET calc == calculate_user_permission_level(
                             self.overrides, self.guild_configs, user, guild)
             IN  [level |-> calc.level,
                  self |-> [self EXCEPT
                      !.guild_configs = calc.configs,
                      !.user_permission_cache =
                          Put(@, cache_key, CacheEntry(calc.level, t))]]

(* PermissionManager._check_permission_internal(user, permission_node,    *)
(* channel, guild)                                                         *)
(* The variant that looks at the overrides before the BANNED test. *)
check_permission_internal_overridefirst(self, user, node, channel, guild, t) ==
    IF node \notin DOMAIN self.nodes
    THEN [result |-> FALSE, self |-> self]
    ELSE
    LET lv == get_user_permission_level(self, user, guild, t)
        override_result ==
            check_overrides(self.overrides, user, node, channel, guild, t)
        configs == IF guild # NoGuild
                   THEN get_guild_config(lv.self.guild_configs, guild.id)
                   ELSE lv.self.guild_configs
        required_level ==
            IF guild # NoGuild
            THEN get_required_level(configs[guild.id], node, self.nodes)
            ELSE self.nodes[node].default_level
    IN  IF ~override_result.is_none
        THEN [result |-> override_result.granted, self |-> lv.self]
        ELSE IF lv.level = BANNED
        THEN [result |-> FALSE, self |-> lv.self]
        ELSE [result |->
                /\ ~(lv.level < required_level)
                /\ check_scope_restrictions(self.nodes[node], channel, guild)
                /\ check_role_restrictions(self.nodes[node], user, guild),
              self |-> [lv.self EXCEPT !.guild_configs = configs]]

(* The variant without the registry test: an unknown node has the        *)
(* required level get_required_level gives it.                             *)
check_permission_internal_noregistry(self, user, node, channel, guild, t) ==
    LET lv == get_user_permission_level(self, user, guild, t)
        override_result ==
            check_overrides(self.overrides, user, node, channel, guild, t)
        configs == IF guild # NoGuild
                   THEN get_guild_config(lv.self.guild_configs, guild.id)
                   ELSE lv.self.guild_configs
        required_level ==
            IF guild # NoGuild
            THEN get_required_level(configs[guild.id], node, self.nodes)
            ELSE OWNER
    IN  IF lv.level = BANNED
        THEN [result |-> FALSE, self |-> lv.self]
        ELSE IF ~override_result.is_none
        THEN [result |-> override_result.granted, self |-> lv.self]
        ELSE [result |-> ~(lv.level < required_level),
              self |-> [lv.self EXCEPT !.guild_configs = configs]]

check_permission_internal(self, user, node, channel, guild, t) ==
    IF node \notin DOMAIN self.nodes
    THEN [result |-> FALSE, self |-> self]
    ELSE
    LET lv == get_user_permission_level(self, user, guild, t)
        override_result ==
            check_overrides(self.overrides, user, node, channel, guild, t)
        configs == IF guild # NoGuild
                   THEN get_guild_config(lv.self.guild_configs, guild.id)
                   ELSE lv.self.guild_configs
        required_level ==
            IF guild # NoGuild
            THEN get_required_level(configs[guild.id], node, self.nodes)
            ELSE self.nodes[node].default_level
    IN  IF lv.level = BANNED
        THEN [result |-> FALSE, self |-> lv.self]
        ELSE IF ~override_result.is_none
        THEN [result |-> override_result.granted, self |-> lv.self]
        ELSE IF lv.level < required_level
        THEN [result |-> FALSE,
              self |-> [lv.self EXCEPT !.guild_configs = configs]]
        ELSE [result |->
                /\ check_scope_restrictions(self.nodes[node], channel, guild)
                /\ check_role_restrictions(self.nodes[node], user, guild),
              self |-> [lv.self EXCEPT !.guild_configs = configs]]

(* PermissionManager.check_permission(user, permission_node, channel,     *)
(* guild): the result, the object after the call, and whether the call ran *)
(* the internal computation.                                               *)
(* The variant that never looks into the cache. *)
check_permission_nolookup(self, user, node, channel, guild, t) ==
    LET counted == [self EXCEPT !.check_count = @ + 1]
        cache_key == <<user.id, node, channel.id, guild.id>>
        r == check_permission_internal(counted, user, node, channel, guild, t)
    IN  [result |-> r.result, computed |-> TRUE,
         self |-> [r.self EXCEPT !.permission_check_cache =
                      Put(@, cache_key, CacheEntry(r.result, t))]]

check_permission(self, user, node, channel, guild, t) ==
    LET counted == [self EXCEPT !.check_count = @ + 1]
        cache_key == <<user.id, node, channel.id, guild.id>>
        cache == self.permission_check_cache
    IN  IF cache_key \in DOMAIN cache /\ fresh(cache[cache_key], t)
        THEN [result |-> cache[cache_key].value, computed |-> FALSE,
              self |-> [counted EXCEPT !.cache_hits = @ + 1]]
        ELSE LET r == check_permission_internal(
                          counted, user, node, channel, guild, t)
             IN  [result |-> r.result, computed |-> TRUE,
                  self |-> [r.self EXCEPT !.permission_check_cache =
                               Put(@, cache_key, CacheEntry(r.result, t))]]

(* PermissionManager.clear_cache() *)
(* The variant that clears the user cache only. *)
clear_cache_usersonly(self) ==
    [self EXCEPT !.user_permission_cache = EmptyMap]

clear_cache(self) ==
    [self EXCEPT !.user_permission_cache = EmptyMap,
                 !.permission_check_cache = EmptyMap]

-----------------------------------------------------------------------------
(* The mutating operations.  Each ends with _save_to_database or         *)
(* _save_audit_entry, whose failures are logged and swallowed and which    *)
(* change nothing in memory; persistence.delete_guild_config, which        *)
(* reset_guild_config awaits, re-raises.                                   *)

(* Ghost: the in-memory configuration changed, so every entry now in a    *)
(* cache was computed before the change.                                   *)
MarkStale(self) ==
    [self EXCEPT
        !.user_permission_cache =
            [k \in DOMAIN @ |-> [@[k] EXCEPT !.stale = TRUE]],
        !.permission_check_cache =
            [k \in DOMAIN @ |-> [@[k] EXCEPT !.stale = TRUE]]]

(* PermissionAuditEntry(action, target_type, target_id, permission_data,  *)
(* actor_id, guild_id), timestamp = now                                    *)
PermissionAuditEntry(action, target_type, target_id, data, actor_id, guild_id, t) ==
    [action |-> action, target_type |-> target_type, target_id |-> target_id,
     permission_data |-> data, actor_id |-> actor_id, guild_id |-> guild_id,
     timestamp |-> t]

(* dict.get(key): the value, or None *)
Get(map, key, none) == IF key \in DOMAIN map THEN map[key] ELSE none

(* config.<field>[key] = value, for the configuration of guild_id *)
SetConfigField(self, guild_id, field, key, value) ==
    LET configs == get_guild_config(self.guild_configs, guild_id)
    IN  [self EXCEPT !.guild_configs =
            Put(configs, guild_id,
                [configs[guild_id] EXCEPT ![field] = Put(@, key, value)])]

(* The calls to the database.  db_fails: the database call of this        *)
(* invocation raises.  Each operator is TRUE when the exception reaches    *)
(* the caller.                                                             *)

(* PermissionPersistence.save_guild_config: logs and re-raises *)
save_guild_config(db_fails) == db_fails

(* PermissionPersistence.delete_guild_config: logs and re-raises *)
delete_guild_config(db_fails) == db_fails

(* PermissionPersistence.save_audit_entry: logs, does not raise *)
save_audit_entry(db_fails) == FALSE

(* PermissionManager._save_to_database(guild_id): nothing without         *)
(* persistence or without a configuration of the guild; an exception of    *)
(* save_guild_config is caught and logged.                                 *)
save_to_database(self, guild_id, db_fails) ==
    IF ~self.persistence \/ guild_id \notin DOMAIN self.guild_configs
    THEN FALSE
    ELSE save_guild_config(db_fails) /\ FALSE

(* PermissionManager._save_audit_entry(entry) *)
save_audit_entry_of(self, db_fails) ==
    self.persistence /\ save_audit_entry(db_fails)

(* PermissionManager.set_role_permission_level(guild_id, role_id, level,  *)
(* actor_id)                                                               *)
set_role_permission_level(self, guild_id, role_id, level, actor_id, db_fails, t) ==
    LET old_level ==
            Get(ConfigOf(self.guild_configs, guild_id).role_mappings,
                role_id, NoLevel)
        changed == MarkStale(SetConfigField(self, guild_id, "role_mappings",
                                            role_id, level))
        cleared == clear_cache(changed)
        audit_entry ==
            PermissionAuditEntry("set_role", "role", role_id,
                                 <<old_level, level>>, actor_id, guild_id, t)
        logged == [cleared EXCEPT !.audit_log = Append(@, audit_entry)]
    IN  IF save_to_database(cleared, guild_id, db_fails)
        THEN [raised |-> TRUE, self |-> cleared]
        ELSE [raised |-> save_audit_entry_of(logged, db_fails),
              self |-> logged]

(* PermissionManager.set_role_classification(guild_id, role_id, role_type, *)
(* actor_id)                                                               *)
set_role_classification(self, guild_id, role_id, role_type, actor_id, db_fails, t) ==
    LET old_type ==
            Get(ConfigOf(self.guild_configs, guild_id).role_classifications,
                role_id, "None")
        changed == MarkStale(SetConfigField(self, guild_id,
                                 "role_classifications", role_id, role_type))
        cleared == clear_cache(changed)
        audit_entry ==
            PermissionAuditEntry("set_role_type", "role", role_id,
                                 <<old_type, role_type>>, actor_id, guild_id,
                                 t)
        logged == [cleared EXCEPT !.audit_log = Append(@, audit_entry)]
    IN  IF save_to_database(cleared, guild_id, db_fails)
        THEN [raised |-> TRUE, self |-> cleared]
        ELSE [raised |-> save_audit_entry_of(logged, db_fails),
              self |-> logged]

(* PermissionManager.set_command_requirement(guild_id, command_node,      *)
(* level, actor_id)                                                        *)
set_command_requirement(self, guild_id, command_node, level, actor_id, db_fails, t) ==
    LET old_level ==
            Get(ConfigOf(self.guild_configs, guild_id).node_overrides,
                command_node, NoLevel)
        changed == MarkStale(SetConfigField(self, guild_id, "node_overrides",
                                            command_node, level))
        cleared == clear_cache(changed)
        audit_entry ==
            PermissionAuditEntry("set_command", "command", command_node,
                                 <<old_level, level>>, actor_id, guild_id, t)
        logged == [cleared EXCEPT !.audit_log = Append(@, audit_entry)]
    IN  IF save_to_database(cleared, guild_id, db_fails)
        THEN [raised |-> TRUE, self |-> cleared]
        ELSE [raised |-> save_audit_entry_of(logged, db_fails),
              self |-> logged]

(* PermissionManager.auto_configure_guild(guild, actor_id).  analysis is  *)
(* what role_classifier.analyze_guild_roles(guild) returns: the mappings   *)
(* it is confident of and the classification of every role.  The audit     *)
(* entry is appended and saved, then the caches are cleared.               *)
auto_configure_guild(self, guild, actor_id, analysis, db_fails, t) ==
    LET configs == get_guild_config(self.guild_configs, guild.id)
        config == configs[guild.id]
        changed ==
            MarkStale([self EXCEPT !.guild_configs =
                Put(configs, guild.id,
                    [config EXCEPT
                        !.role_classifications =
                            Update(@, analysis.role_classifications),
                        !.role_mappings =
                            Update(@, analysis.confident_mappings),
                        !.auto_configured = TRUE,
                        !.configured_by = actor_id,
                        !.configured_at = t])])
        audit_entry ==
            PermissionAuditEntry("auto_configure", "guild", guild.id,
                                 analysis, actor_id, guild.id, t)
        logged == [changed EXCEPT !.audit_log = Append(@, audit_entry)]
    IN  IF save_audit_entry_of(logged, db_fails)
        THEN [raised |-> TRUE, self |-> logged]
        ELSE [raised |-> save_to_database(logged, guild.id, db_fails),
              self |-> clear_cache(logged)]

(* PermissionManager.reset_guild_config(guild_id, actor_id).  db_fails:   *)
(* persistence.delete_guild_config raises, and so does the method, before  *)
(* it clears the caches and logs the action.                               *)
reset_guild_config(self, guild_id, actor_id, db_fails, t) ==
    LET deleted ==
            IF guild_id \in DOMAIN self.guild_configs
            THEN MarkStale([self EXCEPT !.guild_configs = Del(@, guild_id)])
            ELSE self
        audit_entry ==
            PermissionAuditEntry("reset_config", "guild", guild_id,
                                 "Reset to defaults", actor_id, guild_id, t)
    IN  IF self.persistence /\ delete_guild_config(db_fails)
        THEN [raised |-> TRUE, self |-> deleted]
        ELSE [raised |-> FALSE,
              self |-> [clear_cache(deleted) EXCEPT
                           !.audit_log = Append(@, audit_entry)]]

-----------------------------------------------------------------------------
(* The values the operations are applied to. *)

G1 == [id |-> 10, owner_id |-> 1]
G2 == [id |-> 20, owner_id |-> 2]
Guilds == {NoGuild, G1, G2}

(* Channels of G1: 11 and 13 in category 21, 12 in category 22. *)
Ch1 == [id |-> 11, category |-> 21]
Ch2 == [id |-> 12, category |-> 22]
Ch3 == [id |-> 13, category |-> 21]
(* A direct-message channel: no guild, no category. *)
DM == [id |-> 14, category |-> None]
Channels == {NoChannel, Ch1, Ch2, Ch3, DM}

RoleIds == {101, 102}

User(id, member, roles, perms) ==
    [id |-> id, member |-> member, roles |-> roles,
     guild_permissions |-> perms]

NoUser == User(None, FALSE, {}, {})

PermSets ==
    {{}, {"administrator"}, {"kick_members"}, {"ban_members"},
     {"manage_messages"}, {"moderate_members"}, {"attach_files"},
     {"external_emojis", "attach_files"},
     {"embed_links", "create_public_threads"},
     {"administrator", "kick_members"}}

(* User 1 owns G1, user 2 owns G2, user 3 is a bot owner, user 4 is        *)
(* nobody in particular.  A user who is no Member has no roles.            *)
(* discord.py hands a command the author as a Member where there is a      *)
(* guild (and the guild's owner is one of its members), and as a User in   *)
(* a direct message or when the author is no member of the guild.          *)
CallContext(user, guild) ==
    /\ user.member => guild # NoGuild
    /\ (~user.member /\ guild # NoGuild) => user.id # guild.owner_id

LevelUsers ==
    {User(id, TRUE, roles, perms) :
        id \in {2, 4}, roles \in SUBSET RoleIds, perms \in PermSets}
    \cup {User(id, TRUE, roles, {"administrator"}) :
            id \in {1, 3}, roles \in {{}, {101}}}
    \cup {User(id, FALSE, {}, {}) : id \in {1, 2, 3}}

CheckUsers ==
    {User(2, TRUE, {101}, {}),
     User(2, TRUE, {102}, {"kick_members"}),
     User(2, TRUE, {101, 102}, {"administrator"}),
     User(2, FALSE, {}, {}),
     User(1, TRUE, {101}, {}), User(3, TRUE, {}, {}),
     User(4, TRUE, {101}, {"attach_files", "embed_links"})}

(* A node the application registers at startup, with both restrictions. *)
CustomNode == PermissionNode(MEMBER, {11, 22}, {101})

NodeNames == {"moderation.kick", "owner.eval", "custom.restricted",
              "unknown.node"}

PermissionOverride(target_type, target_id, node, granted, scope_type, scope_id, expires_at) ==
    [target_type |-> target_type, target_id |-> target_id,
     permission_node |-> node, granted |-> granted,
     scope_type |-> scope_type, scope_id |-> scope_id,
     expires_at |-> expires_at]

(* The overrides the database may hold. *)
StoredOverrides ==
    {PermissionOverride("user", 2, "moderation.kick", TRUE, "guild", 10,
                        NoExpiry),
     PermissionOverride("user", 2, "moderation.kick", FALSE, "channel", 11,
                        NoExpiry),
     PermissionOverride("user", 2, "moderation.kick", TRUE, "channel", 11,
                        100),
     PermissionOverride("user", 2, "moderation.kick", FALSE, "guild", 10,
                        100),
     PermissionOverride("role", 101, "moderation.kick", FALSE, "category", 21,
                        NoExpiry),
     PermissionOverride("user", 2, "owner.eval", FALSE, "global", None,
                        NoExpiry),
     PermissionOverride("user", 3, "unknown.node", TRUE, "global", None,
                        NoExpiry),
     PermissionOverride("user", 4, "custom.restricted", TRUE, "role", 101,
                        NoExpiry)}

(* The overrides that matter to a user's level. *)
BanOverrides ==
    {PermissionOverride("user", 2, "moderation.kick", FALSE, "global", None,
                        NoExpiry),
     PermissionOverride("user", 1, "moderation.kick", FALSE, "guild", 10,
                        NoExpiry),
     PermissionOverride("user", 3, "moderation.kick", FALSE, "global", None,
                        NoExpiry),
     PermissionOverride("user", 4, "moderation.kick", TRUE, "global", None,
                        NoExpiry)}

MaxOverrides == 2

RECURSIVE SeqsUpTo(_, _)
SeqsUpTo(S, n) ==
    IF n = 0 THEN {<<>>}
    ELSE LET shorter == SeqsUpTo(S, n - 1)
         IN  shorter \cup {Append(q, x) : q \in shorter, x \in S}

OverrideLists == SeqsUpTo(StoredOverrides, MaxOverrides)

NoOp ==
    [op |-> "none", user |-> NoUser, node |-> "", channel |-> NoChannel,
     guild |-> NoGuild, result |-> FALSE, level |-> NoLevel,
     computed |-> FALSE, outcome |-> "returned", guild_id |-> None,
     role_id |-> None, actor_id |-> None, new_level |-> NoLevel,
     role_type |-> "", db_fails |-> FALSE, at |-> 0]

-----------------------------------------------------------------------------
(* The operations as actions. *)

MaxChecks == 2
MaxHits == 2
MaxMutations == 2
MaxTime == 300

(* check_permission(user, node, channel, guild) *)
CheckPermissionCall(user, node, channel, guild) ==
    /\ phase = "running"
    /\ LET r == check_permission(Self, user, node, channel, guild, now)
       IN  /\ Commit(r.self)
           /\ lastOp' = [NoOp EXCEPT !.op = "check_permission",
                            !.user = user, !.node = node,
                            !.channel = channel, !.guild = guild,
                            !.result = r.result, !.computed = r.computed,
                            !.at = now]
    /\ UNCHANGED <<phase, now, mutations, member_roles, pending>>

CheckPermission(user, node, channel, guild) ==
    /\ check_count < MaxChecks
    /\ CheckPermissionCall(user, node, channel, guild)

(* get_user_permission_level(user, guild) *)
GetUserPermissionLevel(user, guild) ==
    /\ phase = "running"
    /\ cache_hits < MaxHits
    /\ LET r == get_user_permission_level(Self, user, guild, now)
       IN  /\ Commit(r.self)
           /\ lastOp' = [NoOp EXCEPT !.op = "get_user_permission_level",
                            !.user = user, !.guild = guild,
                            !.level = r.level,
                            !.computed = (r.self.cache_hits = cache_hits),
                            !.at = now]
    /\ UNCHANGED <<phase, now, mutations, member_roles, pending>>

SetRolePermissionLevel(guild_id, role_id, level, actor_id, db_fails) ==
    /\ phase = "running"
    /\ mutations < MaxMutations
    /\ LET r == set_role_permission_level(Self, guild_id, role_id, level,
                                          actor_id, db_fails, now)
       IN  /\ Commit(r.self)
           /\ lastOp' = [NoOp EXCEPT !.op = "set_role_permission_level",
                            !.guild_id = guild_id, !.role_id = role_id,
                            !.new_level = level, !.actor_id = actor_id,
                            !.db_fails = (persistence /\ db_fails),
                            !.outcome = IF r.raised THEN "raised"
                                        ELSE "returned"]
    /\ mutations' = mutations + 1
    /\ UNCHANGED <<phase, now, member_roles, pending>>

SetRoleClassification(guild_id, role_id, role_type, actor_id, db_fails) ==
    /\ phase = "running"
    /\ mutations < MaxMutations
    /\ LET r == set_role_classification(Self, guild_id, role_id, role_type,
                                        actor_id, db_fails, now)
       IN  /\ Commit(r.self)
           /\ lastOp' = [NoOp EXCEPT !.op = "set_role_classification",
                            !.guild_id = guild_id, !.role_id = role_id,
                            !.role_type = role_type, !.actor_id = actor_id,
                            !.db_fails = (persistence /\ db_fails),
                            !.outcome = IF r.raised THEN "raised"
                                        ELSE "returned"]
    /\ mutations' = mutations + 1
    /\ UNCHANGED <<phase, now, member_roles, pending>>

SetCommandRequirement(guild_id, command_node, level, actor_id, db_fails) ==
    /\ phase = "running"
    /\ mutations < MaxMutations
    /\ LET r == set_command_requirement(Self, guild_id, command_node, level,
                                        actor_id, db_fails, now)
       IN  /\ Commit(r.self)
           /\ lastOp' = [NoOp EXCEPT !.op = "set_command_requirement",
                            !.guild_id = guild_id, !.node = command_node,
                            !.new_level = level, !.actor_id = actor_id,
                            !.db_fails = (persistence /\ db_fails),
                            !.outcome = IF r.raised THEN "raised"
                                        ELSE "returned"]
    /\ mutations' = mutations + 1
    /\ UNCHANGED <<phase, now, member_roles, pending>>

AutoConfigureGuild(guild, actor_id, analysis, db_fails) ==
    /\ phase = "running"
    /\ mutations < MaxMutations
    /\ LET r == auto_configure_guild(Self, guild, actor_id, analysis, db_fails,
                                     now)
       IN  /\ Commit(r.self)
           /\ lastOp' = [NoOp EXCEPT !.op = "auto_configure_guild",
                            !.guild_id = guild.id, !.actor_id = actor_id,
                            !.db_fails = (persistence /\ db_fails),
                            !.outcome = IF r.raised THEN "raised"
                                        ELSE "returned"]
    /\ mutations' = mutations + 1
    /\ UNCHANGED <<phase, now, member_roles, pending>>

ResetGuildConfig(guild_id, actor_id, db_fails) ==
    /\ phase = "running"
    /\ mutations < MaxMutations
    /\ LET r == reset_guild_config(Self, guild_id, actor_id, db_fails, now)
       IN  /\ Commit(r.self)
           /\ lastOp' = [NoOp EXCEPT !.op = "reset_guild_config",
                            !.guild_id = guild_id, !.actor_id = actor_id,
                            !.db_fails = (persistence /\ db_fails),
                            !.outcome = IF r.raised THEN "raised"
                                        ELSE "returned"]
    /\ mutations' = mutations + 1
    /\ UNCHANGED <<phase, now, member_roles, pending>>

(* PermissionManager.register_node(node), called by the application at    *)
(* startup for a node of its own.                                          *)
register_node(self, name, node) == [self EXCEPT !.nodes = Put(@, name, node)]

RegisterNode(name, node) ==
    /\ phase = "constructed"
    /\ name \notin DOMAIN nodes
    /\ Commit(register_node(Self, name, node))
    /\ UNCHANGED <<phase, now, lastOp, mutations, member_roles, pending>>

(* PermissionManager._load_from_database(): the stored configurations,    *)
(* overrides and audit entries come into memory.                           *)
load_from_database(self, stored_configs, stored_overrides, stored_audit) ==
    [self EXCEPT !.guild_configs = Update(@, stored_configs),
                 !.overrides = stored_overrides,
                 !.audit_log = @ \o stored_audit]

(* PermissionManager.initialize_database(): ok is FALSE when the database *)
(* cannot be opened, and the manager goes on without persistence.          *)
initialize_database(self, ok, stored_configs, stored_overrides, stored_audit) ==
    IF ok
    THEN load_from_database([self EXCEPT !.persistence = TRUE],
                            stored_configs, stored_overrides, stored_audit)
    ELSE [self EXCEPT !.persistence = FALSE]

InitializeDatabase(ok, stored_configs, stored_overrides, stored_audit) ==
    /\ phase = "constructed"
    /\ Commit(initialize_database(Self, ok, stored_configs, stored_overrides,
                                  stored_audit))
    /\ phase' = "running"
    /\ UNCHANGED <<now, lastOp, mutations, member_roles, pending>>

(* The application never calls initialize_database (use_database False). *)
StartWithoutDatabase ==
    /\ phase = "constructed"
    /\ phase' = "running"
    /\ UNCHANGED <<persistence, nodes, guild_configs, user_permission_cache,
                   permission_check_cache, overrides, audit_log, check_count,
                   cache_hits, now, lastOp, mutations, member_roles, pending>>

(* Time passes between two operations. *)
Advance(d) ==
    /\ phase = "running"
    /\ now' = now + d
    /\ UNCHANGED <<phase, persistence, nodes, guild_configs,
                   user_permission_cache, permission_check_cache, overrides,
                   audit_log, check_count, cache_hits, lastOp, mutations,
                   member_roles, pending>>

-----------------------------------------------------------------------------
(* The manager after PermissionManager.__init__. *)

Init ==
    /\ phase = "constructed"
    /\ persistence = FALSE
    /\ nodes = register_default_nodes
    /\ guild_configs = EmptyMap
    /\ user_permission_cache = EmptyMap
    /\ permission_check_cache = EmptyMap
    /\ overrides = <<>>
    /\ audit_log = <<>>
    /\ check_count = 0
    /\ cache_hits = 0
    /\ now = 0
    /\ lastOp = NoOp
    /\ mutations = 0
    /\ member_roles = <<<<0, {101}>>>>
    /\ pending = {}

(* What the database holds when the manager starts: nothing, or a         *)
(* configuration of G1, an override and the audit entry of the mapping.    *)
ConfigWith(mappings, node_overrides) ==
    [GuildPermissionConfig EXCEPT !.role_mappings = mappings,
                                  !.node_overrides = node_overrides]

SpecDatabases ==
    {[configs |-> EmptyMap, overrides |-> <<>>, audit |-> <<>>],
     [configs |-> Map1(10, ConfigWith(Map1(101, MODERATOR), EmptyMap)),
      overrides |->
          <<PermissionOverride("user", 2, "moderation.kick", TRUE, "channel",
                               11, 100)>>,
      audit |->
          <<PermissionAuditEntry("set_role", "role", 101,
                                 <<NoLevel, MODERATOR>>, 1, 10, 0)>>]}

(* The operations on guild G1, by actor 1 and for member 2 who holds role  *)
(* 101. The analysis is what the role classifier makes of G1: role 101 an  *)
(* authority role of moderators and role 102 a cosmetic one. Between two   *)
(* operations 300 s may pass.                                              *)
Next ==
    \/ RegisterNode("custom.restricted", CustomNode)
    \/ \E f \in BOOLEAN :
          AutoConfigureGuild(
              G1, 1,
              [confident_mappings |-> Map1(101, MODERATOR),
               role_classifications |->
                   Map1(101, "authority") @@ Map1(102, "cosmetic")],
              f)
    \/ \E ok \in BOOLEAN, db \in SpecDatabases :
          InitializeDatabase(ok, db.configs, db.overrides, db.audit)
    \/ StartWithoutDatabase
    \/ now + 300 <= MaxTime /\ Advance(300)
    \/ CheckPermission(User(2, TRUE, {101}, {}), "moderation.kick", Ch1, G1)
    \/ GetUserPermissionLevel(User(2, TRUE, {101}, {}), G1)
    \/ \E f \in BOOLEAN : SetRolePermissionLevel(10, 101, LEAD_ADMIN, 1, f)
    \/ \E f \in BOOLEAN : SetRoleClassification(10, 101, "cosmetic", 1, f)
    \/ \E f \in BOOLEAN :
          SetCommandRequirement(10, "moderation.kick", LEAD_ADMIN, 1, f)
    \/ \E f \in BOOLEAN : ResetGuildConfig(10, 1, f)

Spec == Init /\ [][Next]_vars

-----------------------------------------------------------------------------
(* One operation applied to a running manager whose configuration and     *)
(* overrides are drawn from the values below: the queries as functions of  *)
(* the state they read.                                                    *)


ResolveConfigs ==
    {EmptyMap,
     Map1(10, ConfigWith(Map1(101, MODERATOR),
                         Map1("moderation.kick", ADMIN))),
     Map1(10, ConfigWith(Map1(101, MODERATOR),
                         Map1("moderation.kick", EVERYONE)))
        @@ Map1(20, ConfigWith(EmptyMap, Map1("moderation.kick", ADMIN))),
     Map1(10, ConfigWith(EmptyMap,
                         Map1("unknown.node", EVERYONE)
                            @@ Map1("custom.restricted", EVERYONE)))
        @@ Map1(20, GuildPermissionConfig),
     Map1(10, ConfigWith(Map1(101, LEAD_ADMIN) @@ Map1(102, MEMBER),
                         Map1("owner.eval", MODERATOR)))}

(* (channel, guild) of a call: a guild channel comes with its guild. *)
Contexts ==
    {<<NoChannel, NoGuild>>, <<DM, NoGuild>>, <<NoChannel, G1>>,
     <<Ch1, G1>>, <<Ch2, G1>>, <<Ch3, G1>>, <<NoChannel, G2>>}

InitRunning(configs, ovs, t) ==
    /\ phase = "running"
    /\ persistence = TRUE
    /\ nodes = Put(register_default_nodes, "custom.restricted", CustomNode)
    /\ guild_configs = configs
    /\ user_permission_cache = EmptyMap
    /\ permission_check_cache = EmptyMap
    /\ overrides = ovs
    /\ audit_log = <<>>
    /\ check_count = 0
    /\ cache_hits = 0
    /\ now = t
    /\ lastOp = NoOp
    /\ mutations = 0
    /\ member_roles = <<<<0, {101}>>>>
    /\ pending = {}

NextResolve ==
    /\ lastOp.op = "none"
    /\ \/ \E u \in CheckUsers, n \in NodeNames, cg \in Contexts :
            CallContext(u, cg[2]) /\ CheckPermission(u, n, cg[1], cg[2])
       \/ \E u \in CheckUsers, g \in Guilds :
            CallContext(u, g) /\ GetUserPermissionLevel(u, g)
       \/ \E g \in {10, 20}, n \in {"moderation.kick", "unknown.node"},
             l \in {EVERYONE, OWNER} :
            SetCommandRequirement(g, n, l, 1, FALSE)

SpecResolve ==
    /\ \E configs \in ResolveConfigs, ovs \in OverrideLists,
          t \in {100, 200} :
            InitRunning(configs, ovs, t)
    /\ [][NextResolve]_vars

(* The user's level as a function of the user, the guild, the role        *)
(* mappings and the overrides.                                             *)
NextLevel ==
    /\ lastOp.op = "none"
    /\ \E u \in LevelUsers, g \in Guilds :
            CallContext(u, g) /\ GetUserPermissionLevel(u, g)

SpecLevel ==
    /\ \E m \in UNION {[R -> {EVERYONE, MODERATOR, LEAD_ADMIN, BOT_OWNER}] :
                        R \in SUBSET RoleIds},
          ovs \in SeqsUpTo(BanOverrides, MaxOverrides) :
            InitRunning(Map1(10, ConfigWith(m, EmptyMap)), ovs, 0)
    /\ [][NextLevel]_vars

-----------------------------------------------------------------------------
(* The caches over time.  Member 2 of G1 calls check_permission and       *)
(* get_user_permission_level while the clock advances and Discord changes  *)
(* the member's roles; nothing changes the configuration, in which role    *)
(* 101 is mapped to MODERATOR.                                             *)

MaxUpdates == 2
MaxCacheChecks == 3
MaxCacheTime == 400

(* The roles the member has now: user.roles of the Member object. *)
RolesNow == member_roles[Len(member_roles)][2]

Member2 == User(2, TRUE, RolesNow, {})

(* Discord adds a role to the member or removes one. *)
MemberUpdate(roles) ==
    /\ phase = "running"
    /\ Len(member_roles) <= MaxUpdates
    /\ roles # RolesNow
    /\ member_roles' = Append(member_roles, <<now, roles>>)
    /\ UNCHANGED <<phase, persistence, nodes, guild_configs,
                   user_permission_cache, permission_check_cache, overrides,
                   audit_log, check_count, cache_hits, now, lastOp, mutations,
                   pending>>

(* clear_cache(), called from outside the manager *)
ClearCache ==
    /\ phase = "running"
    /\ Commit(clear_cache(Self))
    /\ lastOp' = [NoOp EXCEPT !.op = "clear_cache", !.at = now]
    /\ UNCHANGED <<phase, now, mutations, member_roles, pending>>

(* The clock advances by a third of a cache entry's lifetime. *)
CacheTicks == {100}

NextCache ==
    \/ /\ check_count < MaxCacheChecks
       /\ CheckPermissionCall(Member2, "moderation.kick", Ch1, G1)
    \/ GetUserPermissionLevel(Member2, G1)
    \/ ClearCache
    \/ \E roles \in SUBSET {101} : MemberUpdate(roles)
    \/ \E d \in CacheTicks : now + d <= MaxCacheTime /\ Advance(d)

SpecCache ==
    /\ InitRunning(Map1(10, ConfigWith(Map1(101, MODERATOR), EmptyMap)),
                   <<>>, 0)
    /\ [][NextCache]_vars

-----------------------------------------------------------------------------
(* Text.  A role name is a sequence of characters.                        *)

LowerCase ==
    <<"a", "b", "c", "d", "e", "f", "g", "h", "i", "j", "k", "l", "m",
      "n", "o", "p", "q", "r", "s", "t", "u", "v", "w", "x", "y", "z">>

UpperCase ==
    <<"A", "B", "C", "D", "E", "F", "G", "H", "I", "J", "K", "L", "M",
      "N", "O", "P", "Q", "R", "S", "T", "U", "V", "W", "X", "Y", "Z">>

Digits == {"0", "1", "2", "3", "4", "5", "6", "7", "8", "9"}

(* The characters of which str.isalnum() is true *)
Alphanumerics ==
    {LowerCase[i] : i \in 1..26} \cup {UpperCase[i] : i \in 1..26} \cup Digits

(* \w of the regular expressions *)
IsWordChar(c) == c \in Alphanumerics \/ c = "_"

(* str.lower() of one character *)
ToLower(c) ==
    IF \E i \in 1..26 : UpperCase[i] = c
    THEN LowerCase[CHOOSE i \in 1..26 : UpperCase[i] = c]
    ELSE c

RECURSIVE CollapseSpaces(_)
(* re.sub(r'\s+', ' ', text) *)
CollapseSpaces(s) ==
    IF Len(s) < 2 THEN s
    ELSE IF s[1] = " " /\ s[2] = " "
         THEN CollapseSpaces(Tail(s))
         ELSE <<s[1]>> \o CollapseSpaces(Tail(s))

(* UnicodeTextNormalizer.normalize_text on ASCII text, which NFKD, the    *)
(* decorative patterns and unidecode leave as it is: brackets become       *)
(* spaces, the spaces are collapsed and stripped, every character that is  *)
(* not a word character, a space, + or - is dropped, and the text is       *)
(* lowered.                                                                *)
normalize_text(text) ==
    LET Brackets == {"[", "]", "(", ")", "{", "}"}
        \* str.strip() of a text whose runs of spaces are collapsed
        Strip(s) ==
            LET a == IF Len(s) > 0 /\ s[1] = " " THEN Tail(s) ELSE s
            IN  IF Len(a) > 0 /\ a[Len(a)] = " "
                THEN SubSeq(a, 1, Len(a) - 1)
                ELSE a
        unbracketed ==
            [i \in 1..Len(text) |->
                IF text[i] \in Brackets THEN " " ELSE text[i]]
        cleaned == Strip(CollapseSpaces(unbracketed))
        ascii_version ==
            SelectSeq(cleaned,
                LAMBDA c : IsWordChar(c) \/ c \in {" ", "+", "-"})
        stripped == Strip(CollapseSpaces(ascii_version))
    IN  [i \in 1..Len(stripped) |-> ToLower(stripped[i])]

normalize_discord_text(text) == normalize_text(text)

(* w occurs in s from index i on *)
OccursAt(w, s, i) ==
    /\ i >= 1
    /\ i + Len(w) - 1 <= Len(s)
    /\ \A k \in 1..Len(w) : s[i + k - 1] = w[k]

(* pattern in text, of two Python strings *)
Contains(s, w) == \E i \in 1..Len(s) : OccursAt(w, s, i)

(* \b between the characters p and p + 1 of s *)
Boundary(s, p) ==
    (p >= 1 /\ p <= Len(s) /\ IsWordChar(s[p]))
        # (p + 1 >= 1 /\ p + 1 <= Len(s) /\ IsWordChar(s[p + 1]))

(* re.search(r'\bw\b', s) *)
MatchWord(s, w) ==
    \E i \in 1..Len(s) :
        /\ OccursAt(w, s, i)
        /\ Boundary(s, i - 1)
        /\ Boundary(s, i + Len(w) - 1)

(* re.search(r'\ba.*b\b', s) *)
MatchSpan(s, a, b) ==
    \E i \in 1..Len(s) :
        /\ OccursAt(a, s, i)
        /\ Boundary(s, i - 1)
        /\ \E j \in (i + Len(a))..Len(s) :
              /\ OccursAt(b, s, j)
              /\ Boundary(s, j + Len(b) - 1)

(* re.search(r'\bw\b(?!.*x)', s) *)
MatchWordNotFollowed(s, w, x) ==
    \E i \in 1..Len(s) :
        /\ OccursAt(w, s, i)
        /\ Boundary(s, i - 1)
        /\ Boundary(s, i + Len(w) - 1)
        /\ ~\E j \in (i + Len(w))..Len(s) : OccursAt(x, s, j)

Pattern(kind, a, b, confidence, level) ==
    [kind |-> kind, a |-> a, b |-> b, confidence |-> confidence,
     level |-> level]

Matches(s, pattern) ==
    CASE pattern.kind = "word" -> MatchWord(s, pattern.a)
      [] pattern.kind = "span" -> MatchSpan(s, pattern.a, pattern.b)
      [] pattern.kind = "word_not_followed" ->
            MatchWordNotFollowed(s, pattern.a, pattern.b)

(* RoleClassifier.authority_patterns, in the order of the dictionary; a   *)
(* confidence is in hundredths.                                            *)
authority_patterns ==
    <<
      Pattern("word", <<"o", "w", "n", "e", "r">>,
              <<>>, 95, OWNER),
      Pattern("word", <<"f", "o", "u", "n", "d", "e", "r">>,
              <<>>, 90, OWNER),
      Pattern("word", <<"c", "r", "e", "a", "t", "o", "r">>,
              <<>>, 85, OWNER),
      Pattern("span", <<"h", "e", "a", "d">>,
              <<"a", "d", "m", "i", "n">>, 95, LEAD_ADMIN),
      Pattern("span", <<"s", "e", "n", "i", "o", "r">>,
              <<"a", "d", "m", "i", "n">>, 95, LEAD_ADMIN),
      Pattern("span", <<"l", "e", "a", "d">>,
              <<"a", "d", "m", "i", "n">>, 95, LEAD_ADMIN),
      Pattern("span", <<"c", "h", "i", "e", "f">>,
              <<"a", "d", "m", "i", "n">>, 90, LEAD_ADMIN),
      Pattern("span", <<"s", "u", "p", "e", "r">>,
              <<"a", "d", "m", "i", "n">>, 90, LEAD_ADMIN),
      Pattern("span", <<"c", "o">>,
              <<"o", "w", "n", "e", "r">>, 85, LEAD_ADMIN),
      Pattern("word_not_followed", <<"a", "d", "m", "i", "n">>,
              <<"m", "o", "d">>, 90, ADMIN),
      Pattern("word", <<"a", "d", "m", "i", "n", "i", "s", "t", "r", "a", "t", "o", "r">>,
              <<>>, 95, ADMIN),
      Pattern("word", <<"m", "a", "n", "a", "g", "e", "r">>,
              <<>>, 75, ADMIN),
      Pattern("word", <<"e", "x", "e", "c", "u", "t", "i", "v", "e">>,
              <<>>, 70, ADMIN),
      Pattern("word", <<"d", "i", "r", "e", "c", "t", "o", "r">>,
              <<>>, 70, ADMIN),
      Pattern("word", <<"l", "e", "a", "d", "e", "r">>,
              <<>>, 65, ADMIN),
      Pattern("span", <<"h", "e", "a", "d">>,
              <<"m", "o", "d">>, 95, LEAD_MOD),
      Pattern("span", <<"s", "e", "n", "i", "o", "r">>,
              <<"m", "o", "d">>, 95, LEAD_MOD),
      Pattern("span", <<"l", "e", "a", "d">>,
              <<"m", "o", "d">>, 95, LEAD_MOD),
      Pattern("span", <<"c", "h", "i", "e", "f">>,
              <<"m", "o", "d">>, 90, LEAD_MOD),
      Pattern("span", <<"s", "u", "p", "e", "r">>,
              <<"m", "o", "d">>, 90, LEAD_MOD),
      Pattern("span", <<"m", "a", "s", "t", "e", "r">>,
              <<"m", "o", "d">>, 85, LEAD_MOD),
      Pattern("word", <<"m", "o", "d", "e", "r", "a", "t", "o", "r">>,
              <<>>, 90, MODERATOR),
      Pattern("word_not_followed", <<"m", "o", "d">>,
              <<"a", "d", "m", "i", "n">>, 85, MODERATOR),
      Pattern("word", <<"h", "e", "l", "p", "e", "r">>,
              <<>>, 70, MODERATOR),
      Pattern("word", <<"a", "s", "s", "i", "s", "t", "a", "n", "t">>,
              <<>>, 65, MODERATOR),
      Pattern("span", <<"t", "r", "a", "i", "n", "e", "e">>,
              <<"m", "o", "d">>, 60, MODERATOR),
      Pattern("span", <<"j", "u", "n", "i", "o", "r">>,
              <<"m", "o", "d">>, 60, MODERATOR),
      Pattern("span", <<"t", "r", "i", "a", "l">>,
              <<"m", "o", "d">>, 55, MODERATOR),
      Pattern("word", <<"m", "e", "m", "b", "e", "r">>,
              <<>>, 85, MEMBER),
      Pattern("word", <<"v", "i", "p">>,
              <<>>, 80, MEMBER),
      Pattern("word", <<"v", "e", "r", "i", "f", "i", "e", "d">>,
              <<>>, 75, MEMBER),
      Pattern("word", <<"t", "r", "u", "s", "t", "e", "d">>,
              <<>>, 75, MEMBER),
      Pattern("word", <<"s", "u", "p", "p", "o", "r", "t", "e", "r">>,
              <<>>, 70, MEMBER),
      Pattern("word", <<"d", "o", "n", "a", "t", "o", "r">>,
              <<>>, 70, MEMBER),
      Pattern("word", <<"r", "e", "g", "u", "l", "a", "r">>,
              <<>>, 65, MEMBER),
      Pattern("word", <<"a", "c", "t", "i", "v", "e">>,
              <<>>, 60, MEMBER)>>

-----------------------------------------------------------------------------
(* The role classifier.  A role is what the code reads from a             *)
(* discord.Role: id, name, position, permissions (the names of the flags   *)
(* that are set), tags and members (how many, whether the only member is   *)
(* a bot, whether the guild's owner is one of them).  A guild is its       *)
(* roles without @everyone, lowest first, its member_count and the roles   *)
(* found in the overwrites of the channels and categories that are         *)
(* scanned.                                                                *)

NoTags == [bot_id |-> FALSE, integration_id |-> FALSE,
           premium_subscriber |-> FALSE, present |-> FALSE]

Role(id, name, position, permissions, tags, members) ==
    [id |-> id, name |-> name, position |-> position,
     permissions |-> permissions, tags |-> tags, members |-> members]

(* len(guild.roles): the roles and @everyone *)
total_roles(guild) == Len(guild.roles) + 1

(* discord.Role.is_bot_managed() *)
is_bot_managed(role) == role.tags.present /\ role.tags.bot_id

(* RoleClassifier._has_any_channel_overrides(role, guild): the role is in *)
(* the overwrites of a channel get_channels_to_analyze returns or of one   *)
(* of the first 10 categories.                                             *)
has_any_channel_overrides(role, guild) == role.id \in guild.overwritten

authority_perms ==
    {"administrator", "manage_guild", "manage_roles", "manage_channels",
     "kick_members", "ban_members", "moderate_members", "manage_messages",
     "mute_members", "deafen_members", "move_members"}

(* The variant without the position rule. *)
has_authority_permissions_flagsonly(role, guild) ==
    role.permissions \cap authority_perms # {}

(* RoleClassifier._has_authority_permissions(role); role.guild is guild.  *)
(* relative_position > 0.7 as 10 * position > 7 * total_roles.             *)
has_authority_permissions(role, guild) ==
    \/ role.permissions \cap authority_perms # {}
    \/ /\ total_roles(guild) > 1
       /\ 10 * role.position > 7 * total_roles(guild)
       /\ role.permissions # {}

(* RoleClassifier._has_only_cosmetic_permissions(role) *)
has_only_cosmetic_permissions(role, guild) ==
    LET cosmetic_perms ==
            {"external_emojis", "external_stickers", "attach_files",
             "embed_links", "use_external_emojis", "change_nickname"}
    IN  /\ role.permissions \cap cosmetic_perms # {}
        /\ ~has_authority_permissions(role, guild)

(* RoleClassifier._is_verification_role(role, guild).  adoption_rate >=   *)
(* 0.4 as 10 * members >= 4 * member_count.                                *)
is_verification_role(role, guild) ==
    LET member_count ==
            IF guild.member_count = 0 THEN 1 ELSE guild.member_count
        verification_patterns ==
            {<<"m", "e", "m", "b", "e", "r">>,
             <<"v", "e", "r", "i", "f", "i", "e", "d">>,
             <<"c", "i", "t", "i", "z", "e", "n">>, <<"u", "s", "e", "r">>}
    IN  /\ 10 * role.members.count >= 4 * member_count
        /\ has_any_channel_overrides(role, guild)
        /\ \E pattern \in verification_patterns :
              Contains(normalize_discord_text(role.name), pattern)

(* RoleClassifier._is_owner_role(role, guild).  relative_position > 0.9   *)
(* as 10 * position > 9 * total_roles.  The confidence is summed in IEEE   *)
(* double arithmetic: <<n, e>> is the double nearest to n/10 when e = 0,   *)
(* the next double above it when e = 1 and the next below it when e = -1;  *)
(* <<n, e, y>> :> <<m, f>> says that <<n, e>> + y/10 is <<m, f>>.          *)
is_owner_role(role, guild) ==
    LET FloatSum ==
        (<<0, 0, 1>> :> <<1, 0>>) @@
        (<<0, 0, 2>> :> <<2, 0>>) @@
        (<<0, 0, 3>> :> <<3, 0>>) @@
        (<<0, 0, 4>> :> <<4, 0>>) @@
        (<<2, 0, 1>> :> <<3, 1>>) @@
        (<<3, 0, 1>> :> <<4, 0>>) @@
        (<<3, 0, 2>> :> <<5, 0>>) @@
        (<<4, 0, 1>> :> <<5, 0>>) @@
        (<<4, 0, 2>> :> <<6, 1>>) @@
        (<<4, 0, 3>> :> <<7, 0>>) @@
        (<<5, 0, 1>> :> <<6, 0>>) @@
        (<<6, 1, 1>> :> <<7, 1>>) @@
        (<<7, 0, 1>> :> <<8, -1>>) @@
        (<<7, 0, 2>> :> <<9, -1>>) @@
        (<<9, -1, 1>> :> <<10, -1>>)
        FloatAdd(x, tenths) == FloatSum[<<x[1], x[2], tenths>>]
        \* x > n/10, of a double x and the literal n/10
        FloatGreater(x, tenths) ==
            x[1] > tenths \/ (x[1] = tenths /\ x[2] > 0)
        c0 == <<0, 0>>
        c1 == IF role.members.owner THEN FloatAdd(c0, 4) ELSE c0
        c2 == IF /\ total_roles(guild) > 1
                 /\ 10 * role.position > 9 * total_roles(guild)
              THEN FloatAdd(c1, 3) ELSE c1
        c3 == IF "administrator" \in role.permissions
              THEN FloatAdd(c2, 2) ELSE c2
        confidence ==
              IF 1 <= role.members.count /\ role.members.count <= 3
              THEN FloatAdd(c3, 1) ELSE c3
    IN  FloatGreater(confidence, 6)

integration_patterns ==
    {<<"b", "o", "o", "s", "t", "e", "r">>, <<"b", "o", "o", "s", "t">>,
     <<"n", "i", "t", "r", "o">>, <<"p", "r", "e", "m", "i", "u", "m">>}

(* The keywords of the check under PRIORITY 3, 'member' among them. *)
override_authority_name_patterns ==
    {<<"a", "d", "m", "i", "n">>,
     <<"a", "d", "m", "i", "n", "i", "s", "t", "r", "a", "t", "o", "r">>,
     <<"m", "o", "d">>, <<"m", "o", "d", "e", "r", "a", "t", "o", "r">>,
     <<"o", "w", "n", "e", "r">>, <<"f", "o", "u", "n", "d", "e", "r">>,
     <<"s", "t", "a", "f", "f">>, <<"l", "e", "a", "d", "e", "r">>,
     <<"m", "a", "n", "a", "g", "e", "r">>,
     <<"e", "x", "e", "c", "u", "t", "i", "v", "e">>,
     <<"d", "i", "r", "e", "c", "t", "o", "r">>,
     <<"m", "e", "m", "b", "e", "r">>}

(* The keywords of the check under PRIORITY 4. *)
authority_name_patterns ==
    {<<"a", "d", "m", "i", "n">>,
     <<"a", "d", "m", "i", "n", "i", "s", "t", "r", "a", "t", "o", "r">>,
     <<"m", "o", "d">>, <<"m", "o", "d", "e", "r", "a", "t", "o", "r">>,
     <<"o", "w", "n", "e", "r">>, <<"f", "o", "u", "n", "d", "e", "r">>,
     <<"s", "t", "a", "f", "f">>, <<"l", "e", "a", "d", "e", "r">>,
     <<"m", "a", "n", "a", "g", "e", "r">>,
     <<"e", "x", "e", "c", "u", "t", "i", "v", "e">>,
     <<"d", "i", "r", "e", "c", "t", "o", "r">>}

ContainsAny(s, patterns) == \E pattern \in patterns : Contains(s, pattern)

(* re.search over demographic_patterns *)
MatchesDemographic(s) ==
    LET DigitAt(i) == i >= 1 /\ i <= Len(s) /\ s[i] \in Digits
        \* the patterns with digits: \d{2}[+-], \d{2}-\d{2}, \d{2}\+
        MatchAgeRange ==
            \E i \in 1..Len(s) :
                /\ DigitAt(i)
                /\ DigitAt(i + 1)
                /\ i + 2 <= Len(s)
                /\ s[i + 2] \in {"+", "-"}
        demographic_words ==
            {<<"t", "e", "e", "n">>, <<"a", "d", "u", "l", "t">>,
             <<"s", "e", "n", "i", "o", "r">>,
             <<"e", "m", "p", "l", "o", "y", "e", "d">>,
             <<"u", "n", "e", "m", "p", "l", "o", "y", "e", "d">>,
             <<"s", "t", "u", "d", "e", "n", "t">>,
             <<"r", "e", "t", "i", "r", "e", "d">>,
             <<"w", "o", "r", "k", "i", "n", "g">>,
             <<"u", "n", "i", "v", "e", "r", "s", "i", "t", "y">>,
             <<"c", "o", "l", "l", "e", "g", "e">>, <<"m", "a", "l", "e">>,
             <<"f", "e", "m", "a", "l", "e">>, <<"s", "i", "n", "g", "l", "e">>,
             <<"m", "a", "r", "r", "i", "e", "d">>, <<"t", "a", "k", "e", "n">>,
             <<"e", "s", "t">>, <<"p", "s", "t">>, <<"c", "s", "t">>,
             <<"m", "s", "t">>, <<"u", "t", "c">>, <<"g", "m", "t">>,
             <<"u", "s", "a">>, <<"c", "a", "n", "a", "d", "a">>,
             <<"e", "u", "r", "o", "p", "e">>, <<"a", "s", "i", "a">>,
             <<"a", "e", "s", "t">>, <<"j", "s", "t">>, <<"e", "e", "t">>,
             <<"c", "e", "t">>, <<"b", "r", "t">>, <<"e", "d", "g", "e", "r">>,
             <<"g", "o", "o", "n", "e", "r">>, <<"n", "o", "r", "m", "i", "e">>,
             <<"w", "e", "e", "b">>, <<"g", "a", "m", "e", "r">>,
             <<"a", "s", "y", "l", "e", "e">>,
             <<"r", "e", "f", "u", "g", "e", "e">>,
             <<"i", "m", "m", "i", "g", "r", "a", "n", "t">>,
             <<"n", "e", "w", "b", "i", "e">>, <<"s", "e", "e", "k", "e", "r">>,
             <<"d", "e", "t", "a", "i", "n", "e", "e">>,
             <<"r", "e", "s", "i", "d", "e", "n", "t">>,
             <<"n", "a", "t", "i", "o", "n", "a", "l">>,
             <<"t", "r", "a", "n", "s">>, <<"g", "a", "y">>,
             <<"l", "e", "s", "b", "i", "a", "n">>, <<"b", "i">>,
             <<"q", "u", "e", "e", "r">>, <<"b", "l", "a", "c", "k">>,
             <<"w", "h", "i", "t", "e">>, <<"a", "s", "i", "a", "n">>,
             <<"l", "a", "t", "i", "n", "o">>, <<"h", "a", "r", "k", "i", "e">>,
             <<"d", "a", "r", "k", "i", "e">>}
    IN  \/ MatchAgeRange
        \/ \E w \in demographic_words : MatchWord(s, w)
        \/ MatchSpan(s, <<"h", "i", "g", "h">>,
                     <<"s", "c", "h", "o", "o", "l">>)

team_patterns ==
    {<<"t", "e", "a", "m">>, <<"r", "e", "d">>, <<"b", "l", "u", "e">>,
     <<"g", "r", "e", "e", "n">>, <<"y", "e", "l", "l", "o", "w">>,
     <<"p", "u", "r", "p", "l", "e">>, <<"o", "r", "a", "n", "g", "e">>,
     <<"s", "q", "u", "a", "d">>}

temp_patterns ==
    {<<"e", "v", "e", "n", "t">>, <<"c", "o", "n", "t", "e", "s", "t">>,
     <<"g", "i", "v", "e", "a", "w", "a", "y">>, <<"t", "e", "m", "p">>,
     <<"t", "r", "i", "a", "l">>, <<"b", "e", "t", "a">>,
     <<"t", "e", "s", "t">>}

(* PRIORITY 5 to 9 of _classify_role_type, for a role that is no bot, no  *)
(* integration, not functional and no authority.                           *)
classify_other(role, guild, normalized_name) ==
    LET \* the characters of the name that are neither alphanumeric nor
        \* spaces are 70% of it or more (with an empty name: 0 >= 0)
        MostlySymbols(name) ==
            10 * Len(SelectSeq(name,
                        LAMBDA c : c \notin Alphanumerics /\ c # " "))
                >= 7 * Len(name)
    IN
    IF role.members.count = 1 /\ role.members.bot THEN "bot"
    ELSE IF /\ role.members.count = 1
            /\ ~has_authority_permissions(role, guild)
            /\ ~has_any_channel_overrides(role, guild)
    THEN "cosmetic"
    ELSE IF /\ (role.permissions = {}
                \/ has_only_cosmetic_permissions(role, guild))
            /\ (MatchesDemographic(normalized_name)
                \/ role.members.count > 5)
    THEN "cosmetic"
    ELSE IF ContainsAny(normalized_name, team_patterns) THEN "cosmetic"
    ELSE IF ContainsAny(normalized_name, temp_patterns) THEN "temporary"
    ELSE IF MostlySymbols(role.name) THEN "cosmetic"
    ELSE "unknown"

(* The variant that tests the authority permissions before the tags. *)
classify_role_type_permsfirst(role, guild) ==
    LET normalized_name == normalize_discord_text(role.name)
    IN  IF has_authority_permissions(role, guild) THEN "authority"
        ELSE IF is_bot_managed(role) THEN "bot"
        ELSE IF role.tags.present /\ role.tags.bot_id THEN "bot"
        ELSE IF /\ role.tags.present
                /\ (role.tags.integration_id
                    \/ role.tags.premium_subscriber)
        THEN "integration"
        ELSE IF ContainsAny(normalized_name, integration_patterns)
        THEN "integration"
        ELSE classify_other(role, guild, normalized_name)

(* The variant in which an overwrite makes the role functional unless     *)
(* its name is an authority name.                                          *)
classify_role_type_overwritefirst(role, guild) ==
    LET normalized_name == normalize_discord_text(role.name)
    IN  IF is_bot_managed(role) THEN "bot"
        ELSE IF role.tags.present /\ role.tags.bot_id THEN "bot"
        ELSE IF /\ role.tags.present
                /\ (role.tags.integration_id
                    \/ role.tags.premium_subscriber)
        THEN "integration"
        ELSE IF ContainsAny(normalized_name, integration_patterns)
        THEN "integration"
        ELSE IF /\ has_any_channel_overrides(role, guild)
                /\ ~ContainsAny(normalized_name,
                                override_authority_name_patterns)
        THEN "functional"
        ELSE IF has_authority_permissions(role, guild) THEN "authority"
        ELSE IF ContainsAny(normalized_name, authority_name_patterns)
        THEN "authority"
        ELSE IF is_verification_role(role, guild) THEN "authority"
        ELSE classify_other(role, guild, normalized_name)

(* RoleClassifier._classify_role_type(role, guild) *)
classify_role_type(role, guild) ==
    LET normalized_name == normalize_discord_text(role.name)
    IN  IF is_bot_managed(role) THEN "bot"
        ELSE IF role.tags.present /\ role.tags.bot_id THEN "bot"
        ELSE IF /\ role.tags.present
                /\ (role.tags.integration_id
                    \/ role.tags.premium_subscriber)
        THEN "integration"
        ELSE IF ContainsAny(normalized_name, integration_patterns)
        THEN "integration"
        ELSE IF /\ has_any_channel_overrides(role, guild)
                /\ ~ContainsAny(normalized_name,
                                override_authority_name_patterns)
                /\ ~has_authority_permissions(role, guild)
                /\ ~is_verification_role(role, guild)
        THEN "functional"
        ELSE IF has_authority_permissions(role, guild) THEN "authority"
        ELSE IF ContainsAny(normalized_name, authority_name_patterns)
        THEN "authority"
        ELSE IF is_verification_role(role, guild) THEN "authority"
        ELSE classify_other(role, guild, normalized_name)

RECURSIVE BestMatch(_, _, _)
(* The loop of _analyze_authority_name from pattern i on: a later pattern *)
(* replaces the best one only when its confidence is greater.              *)
BestMatch(s, i, best) ==
    IF i > Len(authority_patterns) THEN best
    ELSE LET pattern == authority_patterns[i]
         IN  IF Matches(s, pattern) /\ pattern.confidence > best.confidence
             THEN BestMatch(s, i + 1,
                      [level |-> pattern.level,
                       confidence |-> pattern.confidence])
             ELSE BestMatch(s, i + 1, best)

(* RoleClassifier._analyze_authority_name(role_name): (level, confidence) *)
(* with the confidence in hundredths, (None, 0) without a match.           *)
analyze_authority_name(role_name) ==
    BestMatch(normalize_discord_text(role_name), 1,
              [level |-> NoLevel, confidence |-> 0])

(* RoleClassifier._analyze_single_role(role, guild): the fields of the    *)
(* RoleAnalysis that the classification and the mappings depend on.        *)
analyze_single_role(role, guild) ==
    [role |-> role,
     role_type |-> classify_role_type(role, guild),
     has_channel_overrides |-> has_any_channel_overrides(role, guild),
     is_owner_role |-> is_owner_role(role, guild)]

RECURSIVE SortedByPosition(_)
(* sorted(roles, key=position, reverse=True): highest position first, the *)
(* roles of one position in the order they had.                            *)
SortedByPosition(roles) ==
    IF roles = <<>> THEN <<>>
    ELSE LET first ==
                 CHOOSE i \in 1..Len(roles) :
                    /\ \A j \in 1..Len(roles) :
                          roles[j].position <= roles[i].position
                    /\ \A j \in 1..(i - 1) :
                          roles[j].position < roles[i].position
             rest == SubSeq(roles, 1, first - 1)
                        \o SubSeq(roles, first + 1, Len(roles))
         IN  <<roles[first]>> \o SortedByPosition(rest)

(* sorted_roles.index(role), 0-based *)
IndexOf(roles, role) ==
    (CHOOSE i \in 1..Len(roles) :
        /\ roles[i].id = role.id
        /\ \A j \in 1..(i - 1) : roles[j].id # role.id) - 1

(* The variant whose bounds are exclusive. *)
position_based_level_exclusive(role, authority_analyses) ==
    LET sorted_roles ==
            SortedByPosition([i \in 1..Len(authority_analyses) |->
                                 authority_analyses[i].role])
        role_index == IndexOf(sorted_roles, role)
        total_authority_roles == Len(sorted_roles)
    IN  IF \A i \in 1..Len(sorted_roles) : sorted_roles[i].id # role.id
        THEN NoLevel
        ELSE IF total_authority_roles = 1 THEN ADMIN
        ELSE IF 10 * role_index < 1 * total_authority_roles THEN LEAD_ADMIN
        ELSE IF 10 * role_index < 3 * total_authority_roles THEN ADMIN
        ELSE IF 10 * role_index < 5 * total_authority_roles THEN LEAD_MOD
        ELSE IF 10 * role_index < 7 * total_authority_roles THEN MODERATOR
        ELSE MEMBER

(* RoleClassifier._position_based_level(role, authority_analyses).        *)
(* percentile <= k/10 as 10 * role_index <= k * total_authority_roles;     *)
(* NoLevel is the None returned when the role is not in the list.          *)
position_based_level(role, authority_analyses) ==
    LET sorted_roles ==
            SortedByPosition([i \in 1..Len(authority_analyses) |->
                                 authority_analyses[i].role])
        role_index == IndexOf(sorted_roles, role)
        total_authority_roles == Len(sorted_roles)
    IN  IF \A i \in 1..Len(sorted_roles) : sorted_roles[i].id # role.id
        THEN NoLevel
        ELSE IF total_authority_roles = 1 THEN ADMIN
        ELSE IF 10 * role_index <= 1 * total_authority_roles THEN LEAD_ADMIN
        ELSE IF 10 * role_index <= 3 * total_authority_roles THEN ADMIN
        ELSE IF 10 * role_index <= 5 * total_authority_roles THEN LEAD_MOD
        ELSE IF 10 * role_index <= 7 * total_authority_roles THEN MODERATOR
        ELSE MEMBER

(* The variant that takes a name of confidence 0.70 as confident. *)
hierarchy_level_inclusive(analysis, authority_analyses) ==
    LET name == analyze_authority_name(analysis.role.name)
    IN  IF analysis.is_owner_role THEN OWNER
        ELSE IF name.level # NoLevel /\ name.confidence >= 70
        THEN name.level
        ELSE position_based_level(analysis.role, authority_analyses)

(* The level the loop of _apply_hierarchy_logic gives one authority role. *)
hierarchy_level(analysis, authority_analyses) ==
    LET name == analyze_authority_name(analysis.role.name)
    IN  IF analysis.is_owner_role THEN OWNER
        ELSE IF name.level # NoLevel /\ name.confidence > 70
        THEN name.level
        ELSE position_based_level(analysis.role, authority_analyses)

(* RoleClassifier._apply_hierarchy_logic(authority_analyses, guild): a   *)
(* role with a level is mapped to it, by the last of its analyses that     *)
(* has one; a role without a level is uncertain.                           *)
apply_hierarchy_logic(authority_analyses, guild) ==
    LET Result(levels) ==
            LET with_level ==
                    {i \in 1..Len(levels) : levels[i].level # NoLevel}
            IN  [confident_mappings |->
                    [id \in {levels[i].id : i \in with_level} |->
                        levels[CHOOSE i \in with_level :
                                  /\ levels[i].id = id
                                  /\ \A j \in with_level :
                                        j > i => levels[j].id # id].level],
                 uncertain_roles |->
                    {levels[i].id :
                        i \in (1..Len(levels)) \ with_level}]
    IN  Result([i \in 1..Len(authority_analyses) |->
                   [id |-> authority_analyses[i].role.id,
                    level |-> hierarchy_level(authority_analyses[i],
                                              authority_analyses)]])

(* The variant that passes every role to the hierarchy logic. *)
analyze_guild_roles_allroles(guild) ==
    LET role_analyses ==
            <<>> \o [i \in 1..Len(guild.roles) |->
                        analyze_single_role(guild.roles[i], guild)]
        hierarchy == apply_hierarchy_logic(role_analyses, guild)
    IN  [confident_mappings |-> hierarchy.confident_mappings,
         uncertain_roles |-> hierarchy.uncertain_roles,
         role_classifications |->
            [id \in {guild.roles[i].id : i \in 1..Len(guild.roles)} |->
                role_analyses[
                    CHOOSE i \in 1..Len(guild.roles) :
                        guild.roles[i].id = id].role_type]]

(* RoleClassifier.analyze_guild_roles(guild) *)
analyze_guild_roles(guild) ==
    LET role_analyses ==
            <<>> \o [i \in 1..Len(guild.roles) |->
                        analyze_single_role(guild.roles[i], guild)]
        authority_analyses ==
            SelectSeq(role_analyses,
                      LAMBDA a : a.role_type = "authority")
        hierarchy == apply_hierarchy_logic(authority_analyses, guild)
    IN  [confident_mappings |-> hierarchy.confident_mappings,
         uncertain_roles |-> hierarchy.uncertain_roles,
         role_classifications |->
            [id \in {guild.roles[i].id : i \in 1..Len(guild.roles)} |->
                role_analyses[
                    CHOOSE i \in 1..Len(guild.roles) :
                        guild.roles[i].id = id].role_type]]

-----------------------------------------------------------------------------
(* The guilds the classifier is applied to. *)

MaxRoles == 10
MaxColourRoles == 2

RoleNames ==
    {<<"O", "w", "n", "e", "r">>,
     <<"H", "e", "a", "d", " ", "A", "d", "m", "i", "n">>,
     <<"A", "d", "m", "i", "n">>,
     <<"[", "M", "o", "d", "]">>,
     <<"M", "a", "n", "a", "g", "e", "r">>,
     <<"E", "x", "e", "c", "u", "t", "i", "v", "e">>,
     <<"H", "e", "l", "p", "e", "r">>,
     <<"S", "t", "a", "f", "f">>,
     <<"M", "e", "m", "b", "e", "r">>,
     <<"S", "e", "r", "v", "e", "r", " ", "B", "o", "o", "s", "t", "e", "r">>,
     <<"D", "J">>,
     <<"R", "e", "d", " ", "T", "e", "a", "m">>,
     <<"*", "*">>}

(* An authority role whose name gives no level. *)
StaffRole(position) ==
    Role(100 + position, <<"S", "t", "a", "f", "f">>, position, {"kick_members"},
         NoTags, [count |-> 3, bot |-> FALSE, owner |-> FALSE])

(* A role without permissions, of a colour team. *)
ColourRole(position) ==
    Role(100 + position, <<"R", "e", "d", " ", "T", "e", "a", "m">>, position, {}, NoTags,
         [count |-> 3, bot |-> FALSE, owner |-> FALSE])

Guild(roles, member_count, overwritten) ==
    [roles |-> roles, member_count |-> member_count,
     overwritten |-> overwritten]

(* Three roles, the lowest or the highest of them drawn from the values   *)
(* above, with or without an overwrite, the other two staff roles.         *)
WideGuilds ==
    LET RolePermissions ==
            {{}, {"manage_roles"}, {"administrator"}, {"attach_files"},
             {"send_messages"}}
        Tags(bot_id, integration_id, premium_subscriber) ==
            [bot_id |-> bot_id, integration_id |-> integration_id,
             premium_subscriber |-> premium_subscriber, present |-> TRUE]
        RoleTags ==
            {NoTags, Tags(TRUE, TRUE, FALSE), Tags(FALSE, TRUE, FALSE),
             Tags(FALSE, FALSE, TRUE)}
        Members(count, bot, owner) ==
            [count |-> count, bot |-> bot, owner |-> owner]
        \* no member; one bot; two members, the owner one of them; 39 and
        \* 40 of the guild's 100 members
        RoleMembers ==
            {Members(0, FALSE, FALSE), Members(1, TRUE, FALSE),
             Members(2, FALSE, TRUE), Members(39, FALSE, FALSE),
             Members(40, FALSE, FALSE)}
    IN
    {Guild([p \in 1..3 |->
               IF p = position
               THEN Role(100 + p, name, p, permissions, tags, members)
               ELSE StaffRole(p)],
           100, IF overwrite THEN {100 + position} ELSE {}) :
        name \in RoleNames, permissions \in RolePermissions,
        tags \in RoleTags, members \in RoleMembers,
        overwrite \in BOOLEAN, position \in {1, 3}}

(* Up to MaxRoles roles: staff roles and, anywhere among them, up to     *)
(* MaxColourRoles colour roles.                                            *)
TallGuilds ==
    {Guild([p \in 1..n |-> IF p \in colour THEN ColourRole(p)
                           ELSE StaffRole(p)], 100, {}) :
        <<n, colour>> \in
            UNION {{<<m, S>> : S \in {T \in SUBSET (1..m) :
                                        Cardinality(T) <= MaxColourRoles}} :
                   m \in 1..MaxRoles}}

(* _classify_role_type(role, guild) *)
ClassifyRoleType(role, guild) ==
    /\ lastOp' = [op |-> "classify_role_type", role |-> role,
                  guild |-> guild,
                  role_type |-> classify_role_type(role, guild)]
    /\ UNCHANGED <<phase, persistence, nodes, guild_configs,
                   user_permission_cache, permission_check_cache, overrides,
                   audit_log, check_count, cache_hits, now, mutations,
                   member_roles, pending>>

(* analyze_guild_roles(guild) *)
AnalyzeGuildRoles(guild) ==
    /\ lastOp' = [op |-> "analyze_guild_roles", guild |-> guild,
                  analysis |-> analyze_guild_roles(guild)]
    /\ UNCHANGED <<phase, persistence, nodes, guild_configs,
                   user_permission_cache, permission_check_cache, overrides,
                   audit_log, check_count, cache_hits, now, mutations,
                   member_roles, pending>>

max_channels == 50

(* ChannelAnalysisStrategy.  A channel is what the code reads from it: its  *)
(* name, whether it is a text, voice, forum or stage channel (kind "text")   *)
(* or a category, the name of its category (<<>> without one) and whether      *)
(* @everyone may not send messages in it.  guild.categories are the          *)
(* categories in order, each with its channels in order, guild.channels      *)
(* every channel and category.                                               *)

(* ChannelAnalysisStrategy._is_core_channel(channel) *)
is_core_channel(channel) ==
    ContainsAny(normalize_discord_text(channel.name),
                {<<"g", "e", "n", "e", "r", "a", "l">>,
                 <<"m", "a", "i", "n">>, <<"c", "h", "a", "t">>,
                 <<"d", "i", "s", "c", "u", "s", "s", "i", "o", "n">>,
                 <<"a", "n", "n", "o", "u", "n", "c", "e", "m", "e", "n", "t", "s">>,
                 <<"s", "t", "a", "f", "f">>, <<"a", "d", "m", "i", "n">>,
                 <<"m", "o", "d">>, <<"m", "e", "m", "b", "e", "r">>,
                 <<"w", "e", "l", "c", "o", "m", "e">>})

(* ChannelAnalysisStrategy._get_priority_channels() *)
get_priority_channels(guild) ==
    LET Head5(s) == SubSeq(s, 1, IF Len(s) < 5 THEN Len(s) ELSE 5)
        Core(s) ==
            SelectSeq(s, LAMBDA channel :
                channel.kind = "text" /\ is_core_channel(channel))
        top == SubSeq(guild.categories, 1,
                      IF Len(guild.categories) < 3
                      THEN Len(guild.categories) ELSE 3)
        OfCategories[i \in 0..Len(top)] ==
            IF i = 0 THEN <<>>
            ELSE OfCategories[i - 1] \o Core(Head5(top[i].channels))
        uncategorized ==
            SelectSeq(guild.channels, LAMBDA channel :
                channel.category = <<>> /\ channel.kind = "text")
    IN  OfCategories[Len(top)] \o Core(Head5(uncategorized))

(* ChannelAnalysisStrategy._get_filtered_channels().  'channel in          *)
(* filtered' is never true: guild.channels holds every channel once.        *)
get_filtered_channels(guild) ==
    LET name(channel) == normalize_discord_text(channel.name)
        \* re.search(r'\b\d{3,}\b', s)
        MatchDigits(s) ==
            \E i \in 1..Len(s), j \in 1..Len(s) :
                /\ j >= i + 2
                /\ \A k \in i..j : s[k] \in Digits
                /\ Boundary(s, i - 1)
                /\ Boundary(s, j)
        is_ticket_channel(channel) ==
            \/ ContainsAny(name(channel),
                   {<<"t", "i", "c", "k", "e", "t">>,
                    <<"s", "u", "p", "p", "o", "r", "t">>,
                    <<"h", "e", "l", "p">>, <<"c", "l", "a", "i", "m">>,
                    <<"r", "e", "p", "o", "r", "t">>})
            \/ MatchDigits(name(channel))
        is_archived_channel(channel) ==
            \/ /\ channel.category # <<>>
               /\ ContainsAny(normalize_discord_text(channel.category),
                      {<<"a", "r", "c", "h", "i", "v", "e">>,
                       <<"e", "x", "p", "i", "r", "e", "d">>,
                       <<"o", "l", "d">>,
                       <<"i", "n", "a", "c", "t", "i", "v", "e">>,
                       <<"c", "l", "o", "s", "e", "d">>})
            \/ ContainsAny(name(channel),
                   {<<"a", "r", "c", "h", "i", "v", "e">>,
                    <<"o", "l", "d", "-">>,
                    <<"c", "l", "o", "s", "e", "d", "-">>,
                    <<"e", "x", "p", "i", "r", "e", "d">>,
                    <<"i", "n", "a", "c", "t", "i", "v", "e">>})
            \/ /\ channel.read_only
               /\ ContainsAny(name(channel),
                      {<<"o", "l", "d">>,
                       <<"a", "r", "c", "h", "i", "v", "e">>,
                       <<"c", "l", "o", "s", "e", "d">>})
        is_bot_channel(channel) ==
            ContainsAny(name(channel),
                {<<"b", "o", "t", "-">>, <<"l", "o", "g", "s">>,
                 <<"a", "u", "d", "i", "t">>,
                 <<"c", "o", "m", "m", "a", "n", "d", "s">>,
                 <<"s", "p", "a", "m">>,
                 <<"a", "u", "t", "o", "m", "o", "d">>})
        is_temporary_channel(channel) ==
            ContainsAny(name(channel),
                {<<"t", "e", "m", "p", "-">>,
                 <<"e", "v", "e", "n", "t", "-">>,
                 <<"c", "o", "n", "t", "e", "s", "t", "-">>,
                 <<"g", "i", "v", "e", "a", "w", "a", "y">>})
        kept ==
            SelectSeq(guild.channels, LAMBDA channel :
                /\ channel.kind = "text"
                /\ ~is_ticket_channel(channel)
                /\ ~is_archived_channel(channel)
                /\ ~is_bot_channel(channel)
                /\ ~is_temporary_channel(channel))
    IN  SubSeq(kept, 1,
               IF Len(kept) < max_channels THEN Len(kept) ELSE max_channels)

(* The variant that does not limit the channels. *)
get_channels_to_analyze_unlimited(guild) ==
    get_priority_channels(guild) \o get_filtered_channels(guild)

(* ChannelAnalysisStrategy.get_channels_to_analyze() *)
get_channels_to_analyze(guild) ==
    LET channels ==
            get_priority_channels(guild) \o get_filtered_channels(guild)
    IN  SubSeq(channels, 1,
               IF Len(channels) < max_channels
               THEN Len(channels) ELSE max_channels)
-----------------------------------------------------------------------------
(* The guilds whose channels are selected. *)

MaxFill == 52

Channel(id, name, kind, category, read_only) ==
    [id |-> id, name |-> name, kind |-> kind, category |-> category,
     read_only |-> read_only]

(* Up to four categories of 2 or 6 channels, none or 6 channels without a *)
(* category and, with fill > 0, a last category of fill channels named     *)
(* 'lounge'.  The names of the channels rotate through ChannelNames from   *)
(* shift on; every second channel is read-only.  guild.channels lists the  *)
(* channels without a category and then each category with its channels.   *)
ChannelGuilds ==
    LET ChannelNames ==
            <<<<"g", "e", "n", "e", "r", "a", "l">>,
              <<"s", "u", "p", "p", "o", "r", "t", "-", "c", "h", "a", "t">>,
              <<"t", "i", "c", "k", "e", "t", "-", "0", "0", "4", "2">>,
              <<"b", "o", "t", "-", "c", "o", "m", "m", "a", "n", "d", "s">>,
              <<"e", "v", "e", "n", "t", "-", "1">>,
              <<"l", "o", "u", "n", "g", "e">>,
              <<"o", "l", "d", "-", "n", "e", "w", "s">>,
              <<"g", "o", "l", "d">>,
              <<"s", "t", "a", "f", "f", "-", "c", "h", "a", "t">>>>
        CategoryNames ==
            <<<<"M", "a", "i", "n">>,
              <<"A", "r", "c", "h", "i", "v", "e">>,
              <<"S", "t", "a", "f", "f">>,
              <<"M", "i", "s", "c">>>>
        Lounge == <<"l", "o", "u", "n", "g", "e">>
        Lobby == <<"L", "o", "b", "b", "y">>
        GuildOf(ncat, per, nunc, shift, fill) ==
            LET NameOf(k) == ChannelNames[((k + shift) % Len(ChannelNames)) + 1]
                uncategorized ==
                    [k \in 1..nunc |->
                        Channel(k, NameOf(k), "text", <<>>, k % 2 = 0)]
                named ==
                    [c \in 1..ncat |->
                        [name |-> CategoryNames[c], id |-> 100 * c,
                         channels |->
                            [k \in 1..per |->
                                Channel(100 * c + k, NameOf(per * c + k),
                                        "text", CategoryNames[c],
                                        k % 2 = 0)]]]
                lobby ==
                    [name |-> Lobby, id |-> 900,
                     channels |->
                        [k \in 1..fill |->
                            Channel(900 + k, Lounge, "text", Lobby, FALSE)]]
                categories ==
                    IF fill > 0 THEN Append(named, lobby) ELSE named
                Listed[i \in 0..Len(categories)] ==
                    IF i = 0 THEN uncategorized
                    ELSE Listed[i - 1]
                         \o <<Channel(categories[i].id, categories[i].name,
                                      "category", <<>>, FALSE)>>
                         \o categories[i].channels
            IN  [categories |-> categories,
                 channels |-> Listed[Len(categories)]]
    IN  {GuildOf(ncat, per, nunc, shift, fill) :
            ncat \in 0..4, per \in {2, 6}, nunc \in {0, 6},
            shift \in {0, 3, 5}, fill \in {0, MaxFill}}

(* get_channels_to_analyze() of the strategy of a guild *)
GetChannelsToAnalyze(guild) ==
    /\ lastOp' = [op |-> "get_channels_to_analyze", guild |-> guild,
                  priority |-> get_priority_channels(guild),
                  channels |-> get_channels_to_analyze(guild)]
    /\ UNCHANGED <<phase, persistence, nodes, guild_configs,
                   user_permission_cache, permission_check_cache, overrides,
                   audit_log, check_count, cache_hits, now, mutations,
                   member_roles, pending>>

(* MaxRoles roles, the lowest or the highest of them with or without the  *)
(* guild's owner among its 2 or 40 members and with or without             *)
(* administrator, the others staff roles.                                  *)
OwnerGuilds ==
    {Guild([p \in 1..MaxRoles |->
               IF p = position
               THEN Role(100 + p, <<"D", "J">>, p, permissions, NoTags,
                         [count |-> count, bot |-> FALSE, owner |-> owner])
               ELSE StaffRole(p)],
           100, {}) :
        position \in {1, MaxRoles}, owner \in BOOLEAN, count \in {2, 40},
        permissions \in {{"administrator"}, {"kick_members"}}}

(* _is_owner_role(role, guild) *)
IsOwnerRole(role, guild) ==
    /\ lastOp' = [op |-> "is_owner_role", role |-> role, guild |-> guild,
                  result |-> is_owner_role(role, guild)]
    /\ UNCHANGED <<phase, persistence, nodes, guild_configs,
                   user_permission_cache, permission_check_cache, overrides,
                   audit_log, check_count, cache_hits, now, mutations,
                   member_roles, pending>>

NextClassify ==
    /\ lastOp.op = "none"
    /\ \/ \E guild \in WideGuilds, i \in {1, 3} :
            ClassifyRoleType(guild.roles[i], guild)
       \/ \E guild \in WideGuilds \cup TallGuilds : AnalyzeGuildRoles(guild)
       \/ \E guild \in OwnerGuilds, i \in {1, MaxRoles} :
            IsOwnerRole(guild.roles[i], guild)
       \/ \E guild \in ChannelGuilds : GetChannelsToAnalyze(guild)

SpecClassify == Init /\ [][NextClassify]_vars

-----------------------------------------------------------------------------
(* The management commands of the Permissions cog.  A command is invoked  *)
(* by its author, a Member of the guild (commands.guild_only), and passes  *)
(* first through the require_level decorator.  The operations of the       *)
(* manager that a command awaits run here without another task in          *)
(* between.                                                                *)

(* require_level(level): the wrapper asks for the author's level and lets *)
(* the command run when it is high enough.                                 *)
require_level(self, level, author, guild, t) ==
    LET lv == get_user_permission_level(self, author, guild, t)
    IN  [passed |-> lv.level >= level, self |-> lv.self]

(* PermissionLevel[level.upper()]: the member of that name, or NoLevel    *)
(* where Python raises KeyError.  str.upper is given on the names the      *)
(* commands are invoked with.                                              *)
PermissionLevelNamed(level) ==
    LET upper == "everyone" :> "EVERYONE" @@ "Admin" :> "ADMIN" @@
                 "lead_admin" :> "LEAD_ADMIN" @@ "bot_admin" :> "BOT_ADMIN" @@
                 "Bot_Owner" :> "BOT_OWNER" @@ "banned" :> "BANNED" @@
                 "superuser" :> "SUPERUSER" @@ "80" :> "80"
        members == [BANNED |-> BANNED, EVERYONE |-> EVERYONE,
                    MEMBER |-> MEMBER, MODERATOR |-> MODERATOR,
                    LEAD_MOD |-> LEAD_MOD, ADMIN |-> ADMIN,
                    LEAD_ADMIN |-> LEAD_ADMIN, OWNER |-> OWNER,
                    BOT_ADMIN |-> BOT_ADMIN, BOT_OWNER |-> BOT_OWNER]
    IN  IF upper[level] \in DOMAIN members THEN members[upper[level]]
        ELSE NoLevel

(* RoleType[role_type.upper()]: the member's value, or "" for KeyError *)
RoleTypeNamed(role_type) ==
    LET upper == "cosmetic" :> "COSMETIC" @@ "Authority" :> "AUTHORITY" @@
                 "admin" :> "ADMIN"
        members == [AUTHORITY |-> "authority", BOT |-> "bot",
                    COSMETIC |-> "cosmetic", FUNCTIONAL |-> "functional",
                    INTEGRATION |-> "integration",
                    TEMPORARY |-> "temporary", UNKNOWN |-> "unknown"]
    IN  IF upper[role_type] \in DOMAIN members THEN members[upper[role_type]]
        ELSE ""

(* The characters of the names of the nodes. *)
NodeNameChars ==
    "basic.ping" :>
        <<"b", "a", "s", "i", "c", ".", "p", "i", "n", "g">> @@
    "basic.info" :>
        <<"b", "a", "s", "i", "c", ".", "i", "n", "f", "o">> @@
    "basic.help" :>
        <<"b", "a", "s", "i", "c", ".", "h", "e", "l", "p">> @@
    "basic.avatar" :>
        <<"b", "a", "s", "i", "c", ".", "a", "v", "a", "t", "a", "r">> @@
    "basic.uptime" :>
        <<"b", "a", "s", "i", "c", ".", "u", "p", "t", "i", "m", "e">> @@
    "utility.userinfo" :>
        <<"u", "t", "i", "l", "i", "t", "y", ".", "u", "s", "e", "r", "i",
          "n", "f", "o">> @@
    "utility.serverinfo" :>
        <<"u", "t", "i", "l", "i", "t", "y", ".", "s", "e", "r", "v", "e",
          "r", "i", "n", "f", "o">> @@
    "utility.roleinfo" :>
        <<"u", "t", "i", "l", "i", "t", "y", ".", "r", "o", "l", "e", "i",
          "n", "f", "o">> @@
    "moderation.warn" :>
        <<"m", "o", "d", "e", "r", "a", "t", "i", "o", "n", ".", "w", "a",
          "r", "n">> @@
    "moderation.mute" :>
        <<"m", "o", "d", "e", "r", "a", "t", "i", "o", "n", ".", "m", "u",
          "t", "e">> @@
    "moderation.kick" :>
        <<"m", "o", "d", "e", "r", "a", "t", "i", "o", "n", ".", "k", "i",
          "c", "k">> @@
    "moderation.ban" :>
        <<"m", "o", "d", "e", "r", "a", "t", "i", "o", "n", ".", "b", "a", "n">> @@
    "moderation.mass_ban" :>
        <<"m", "o", "d", "e", "r", "a", "t", "i", "o", "n", ".", "m", "a",
          "s", "s", "_", "b", "a", "n">> @@
    "moderation.lockdown" :>
        <<"m", "o", "d", "e", "r", "a", "t", "i", "o", "n", ".", "l", "o",
          "c", "k", "d", "o", "w", "n">> @@
    "moderation.purge" :>
        <<"m", "o", "d", "e", "r", "a", "t", "i", "o", "n", ".", "p", "u",
          "r", "g", "e">> @@
    "admin.settings" :>
        <<"a", "d", "m", "i", "n", ".", "s", "e", "t", "t", "i", "n", "g", "s">> @@
    "admin.permissions" :>
        <<"a", "d", "m", "i", "n", ".", "p", "e", "r", "m", "i", "s", "s",
          "i", "o", "n", "s">> @@
    "admin.reload" :>
        <<"a", "d", "m", "i", "n", ".", "r", "e", "l", "o", "a", "d">> @@
    "admin.server_config" :>
        <<"a", "d", "m", "i", "n", ".", "s", "e", "r", "v", "e", "r", "_",
          "c", "o", "n", "f", "i", "g">> @@
    "admin.audit_logs" :>
        <<"a", "d", "m", "i", "n", ".", "a", "u", "d", "i", "t", "_", "l",
          "o", "g", "s">> @@
    "admin.permission_management" :>
        <<"a", "d", "m", "i", "n", ".", "p", "e", "r", "m", "i", "s", "s",
          "i", "o", "n", "_", "m", "a", "n", "a", "g", "e", "m", "e", "n", "t">> @@
    "owner.shutdown" :>
        <<"o", "w", "n", "e", "r", ".", "s", "h", "u", "t", "d", "o", "w", "n">> @@
    "owner.eval" :>
        <<"o", "w", "n", "e", "r", ".", "e", "v", "a", "l">> @@
    "custom.restricted" :>
        <<"c", "u", "s", "t", "o", "m", ".", "r", "e", "s", "t", "r", "i",
          "c", "t", "e", "d">>

(* The nodes of the registry whose name contains the command:             *)
(* `command.lower() in node_name.lower()`                                  *)
matching_nodes(self, command) ==
    LET lower(s) == <<>> \o [i \in 1..Len(s) |-> ToLower(s[i])]
        InName(cmd, n) == Contains(lower(NodeNameChars[n]), cmd)
    IN  {n \in DOMAIN self.nodes : InName(lower(command), n)}

(* What a command leaves in lastOp: the command, its author and           *)
(* arguments, and how it ended.                                            *)
CommandOp(name, author, guild, outcome) ==
    [NoOp EXCEPT !.op = name, !.user = author, !.guild = guild,
                 !.outcome = outcome, !.actor_id = author.id, !.at = now]

MaxCommands == 2

(* A command is invoked: the wrapper has asked for the author's level.    *)
Invoked(author, guild) ==
    /\ phase = "running"
    /\ author.member
    /\ guild # NoGuild
    /\ mutations < MaxCommands
    /\ mutations' = mutations + 1
    /\ UNCHANGED <<phase, now, member_roles>>

(* permissions-set-role: Permissions.set_role_permission(ctx, role, level) *)
PermissionsSetRole(author, guild, role_id, level, db_fails) ==
    /\ Invoked(author, guild)
    /\ pending' = pending
    /\ LET rl == require_level(Self, ADMIN, author, guild, now)
           permission_level == PermissionLevelNamed(level)
           asked == permission_level \in {BOT_ADMIN, BOT_OWNER}
           user_level ==
               get_user_permission_level(rl.self, author, guild, now)
           known == IF asked THEN user_level.self ELSE rl.self
           r == set_role_permission_level(
                    [known EXCEPT !.guild_configs =
                        get_guild_config(@, guild.id)],
                    guild.id, role_id, permission_level, author.id, db_fails,
                    now)
           outcome ==
               IF ~rl.passed THEN "refused"
               ELSE IF permission_level = NoLevel THEN "invalid"
               ELSE IF asked /\ user_level.level < BOT_OWNER
                    THEN "bot owners only"
               ELSE IF r.raised THEN "raised" ELSE "updated"
       IN  /\ Commit(CASE outcome \in {"refused", "invalid"} -> rl.self
                       [] outcome = "bot owners only" -> known
                       [] OTHER -> r.self)
           /\ lastOp' = CommandOp("permissions-set-role", author, guild,
                                  outcome)

(* permissions-set-role-type: Permissions.set_role_classification(ctx,    *)
(* role, role_type).  The manager's set_role_classification is a           *)
(* coroutine function and the command calls it without await: the call     *)
(* makes a coroutine object that never runs.                               *)
PermissionsSetRoleType(author, guild, role_id, role_type, db_fails) ==
    /\ Invoked(author, guild)
    /\ pending' = pending
    /\ LET rl == require_level(Self, ADMIN, author, guild, now)
           new_role_type == RoleTypeNamed(role_type)
           outcome == IF ~rl.passed THEN "refused"
                      ELSE IF new_role_type = "" THEN "invalid"
                      ELSE "updated"
       IN  /\ Commit(IF outcome = "updated"
                     THEN [rl.self EXCEPT !.guild_configs =
                              get_guild_config(@, guild.id)]
                     ELSE rl.self)
           /\ lastOp' = [CommandOp("permissions-set-role-type", author,
                                   guild, outcome)
                         EXCEPT !.role_id = role_id,
                                !.role_type = new_role_type]

(* permissions-set-command: Permissions.set_command_requirement(ctx,      *)
(* command, level)                                                         *)
PermissionsSetCommand(author, guild, command, level, db_fails) ==
    /\ Invoked(author, guild)
    /\ pending' = pending
    /\ LET rl == require_level(Self, ADMIN, author, guild, now)
           permission_level == PermissionLevelNamed(level)
           matching == matching_nodes(rl.self, command)
           node_name == CHOOSE n \in matching : TRUE
           r == set_command_requirement(
                    [rl.self EXCEPT !.guild_configs =
                        get_guild_config(@, guild.id)],
                    guild.id, node_name, permission_level, author.id,
                    db_fails, now)
           outcome ==
               IF ~rl.passed THEN "refused"
               ELSE IF permission_level = NoLevel THEN "invalid"
               ELSE IF matching = {} THEN "not found"
               ELSE IF Cardinality(matching) > 1 THEN "multiple matches"
               ELSE IF r.raised THEN "raised" ELSE "updated"
       IN  /\ Commit(IF outcome \in {"raised", "updated"} THEN r.self
                     ELSE rl.self)
           /\ lastOp' = [CommandOp("permissions-set-command", author, guild,
                                   outcome)
                         EXCEPT !.node = IF matching = {} THEN ""
                                         ELSE node_name,
                                !.new_level = permission_level]

(* permissions-setup: Permissions.setup_permissions(ctx).  The guild has  *)
(* three staff roles, 101 the lowest.                                      *)
PermissionsSetup(author, guild, db_fails) ==
    /\ Invoked(author, guild)
    /\ pending' = pending
    /\ LET rl == require_level(Self, ADMIN, author, guild, now)
           analysis ==
               analyze_guild_roles(
                   Guild([p \in 1..3 |-> StaffRole(p)], 100, {}))
           r == auto_configure_guild(rl.self, guild, author.id, analysis,
                                     db_fails, now)
           outcome == IF ~rl.passed THEN "refused"
                      ELSE IF r.raised THEN "raised" ELSE "configured"
       IN  /\ Commit(IF rl.passed THEN r.self ELSE rl.self)
           /\ lastOp' = CommandOp("permissions-setup", author, guild,
                                  outcome)

(* `timeout=30.0` of the reset command's wait_for *)
confirmation_timeout == 30

(* permissions-reset: Permissions.reset_config(ctx), up to its wait for   *)
(* the reaction.  The prompt is a new message; the task stays suspended    *)
(* in bot.wait_for('reaction_add', timeout=30.0, check=check).             *)
PermissionsReset(author, guild) ==
    /\ Invoked(author, guild)
    /\ LET rl == require_level(Self, ADMIN, author, guild, now)
       IN  /\ Commit(rl.self)
           /\ pending' =
                IF rl.passed
                THEN pending \cup
                        {[task |-> "reset_config", author |-> author,
                          guild |-> guild, message |-> mutations + 1,
                          since |-> now]}
                ELSE pending
           /\ lastOp' = CommandOp("permissions-reset", author, guild,
                                  IF rl.passed THEN "waiting" ELSE "refused")

(* A reaction is added to a message.  A reset that waits takes it when    *)
(* its check holds: the author's own reaction, the confirming emoji, on    *)
(* the prompt; it then awaits reset_guild_config.  "confirm" is the        *)
(* check-mark emoji the command puts under its prompt.                     *)
(* The variant whose check takes the reaction of any user. *)
ReactionAdd_anyuser(user, emoji, message, db_fails) ==
    LET taken == {f \in pending :
                    /\ f.task = "reset_config"
                    /\ emoji = "confirm"
                    /\ message = f.message
                    /\ now - f.since < confirmation_timeout}
        f == CHOOSE f \in taken : TRUE
        r == reset_guild_config(Self, f.guild.id, f.author.id, db_fails, now)
    IN  /\ phase = "running"
        /\ IF taken = {}
           THEN UNCHANGED <<persistence, nodes, guild_configs,
                            user_permission_cache, permission_check_cache,
                            overrides, audit_log, check_count, cache_hits,
                            pending, lastOp>>
           ELSE /\ Commit(r.self)
                /\ pending' = pending \ {f}
                /\ lastOp' = [op |-> "reaction_add", user |-> user,
                              emoji |-> emoji, message |-> message,
                              outcome |-> IF r.raised THEN "raised"
                                          ELSE "reset",
                              at |-> now]
        /\ UNCHANGED <<phase, now, mutations, member_roles>>

ReactionAdd(user, emoji, message, db_fails) ==
    LET taken == {f \in pending :
                    /\ f.task = "reset_config"
                    /\ user.id = f.author.id
                    /\ emoji = "confirm"
                    /\ message = f.message
                    /\ now - f.since < confirmation_timeout}
        f == CHOOSE f \in taken : TRUE
        r == reset_guild_config(Self, f.guild.id, f.author.id, db_fails, now)
    IN  /\ phase = "running"
        /\ IF taken = {}
           THEN UNCHANGED <<persistence, nodes, guild_configs,
                            user_permission_cache, permission_check_cache,
                            overrides, audit_log, check_count, cache_hits,
                            pending, lastOp>>
           ELSE /\ Commit(r.self)
                /\ pending' = pending \ {f}
                /\ lastOp' = [op |-> "reaction_add", user |-> user,
                              emoji |-> emoji, message |-> message,
                              outcome |-> IF r.raised THEN "raised"
                                          ELSE "reset",
                              at |-> now]
        /\ UNCHANGED <<phase, now, mutations, member_roles>>

(* asyncio.TimeoutError: no reaction passed the check in 30 s, and the    *)
(* command shows "Reset Cancelled".                                        *)
ResetTimeout(f) ==
    /\ phase = "running"
    /\ f \in pending
    /\ f.task = "reset_config"
    /\ now - f.since >= confirmation_timeout
    /\ pending' = pending \ {f}
    /\ lastOp' = CommandOp("permissions-reset", f.author, f.guild,
                           "cancelled")
    /\ UNCHANGED <<phase, persistence, nodes, guild_configs,
                   user_permission_cache, permission_check_cache, overrides,
                   audit_log, check_count, cache_hits, now, mutations,
                   member_roles>>

MaxCommandTime == 30

(* The commands of an administrator (member 2) and of a member without    *)
(* permissions who holds role 101 (member 4) in G1, and the reactions of   *)
(* both.                                                                   *)
NextCommands ==
    LET Admin == User(2, TRUE, {102}, {"administrator"})
        Holder == User(4, TRUE, {101}, {})
        Authors == {Admin, Holder}
        Eval == <<"E", "v", "a", "l">>
    IN  \/ \E a \in Authors, l \in {"lead_admin", "Bot_Owner"} :
              PermissionsSetRole(a, G1, 101, l, FALSE)
        \/ \E at \in {<<Admin, "cosmetic">>, <<Admin, "admin">>,
                       <<Holder, "Authority">>} :
              PermissionsSetRoleType(at[1], G1, 101, at[2], FALSE)
        \/ \E acl \in {<<Admin, Eval, "everyone">>, <<Admin, Eval, "80">>,
                        <<Admin, <<"b", "a", "n">>, "everyone">>,
                        <<Admin, <<"x">>, "everyone">>,
                        <<Holder, Eval, "everyone">>} :
              PermissionsSetCommand(acl[1], G1, acl[2], acl[3], FALSE)
        \/ \E a \in Authors : PermissionsSetup(a, G1, FALSE)
        \/ \E a \in Authors : PermissionsReset(a, G1)
        \/ \E u \in Authors, e \in {"confirm", "reject"},
              m \in {f.message : f \in pending} \cup {0}, f \in BOOLEAN :
              ReactionAdd(u, e, m, f)
        \/ \E f \in pending : ResetTimeout(f)
        \/ now + confirmation_timeout <= MaxCommandTime
           /\ Advance(confirmation_timeout)

SpecCommands == InitRunning(EmptyMap, <<>>, 0) /\ [][NextCommands]_vars

-----------------------------------------------------------------------------
(* The mutating operations as tasks.  With a persistence adapter every    *)
(* `await self._save_to_database(...)`, `await self._save_audit_entry(...)` *)
(* and `await self.persistence.delete_guild_config(...)` reaches the       *)
(* database and suspends the task; other tasks run until it is resumed.    *)
(* A call is the operation with its arguments: guild_id, actor_id, and    *)
(* of role_id, command_node, level, role_type and the classifier's         *)
(* analysis those the operation takes.                                     *)

(* The operation runs up to its first await. *)
BeginMutation(call) ==
    /\ phase = "running"
    /\ persistence
    /\ mutations < MaxMutations
    /\ LET configs == get_guild_config(guild_configs, call.guild_id)
           config == ConfigOf(guild_configs, call.guild_id)
           \* config.<field>[key] = value; self.clear_cache(); then
           \* _save_to_database
           Set(field, key, value) ==
               clear_cache(MarkStale(
                   SetConfigField(Self, call.guild_id, field, key, value)))
           first ==
               CASE call.op = "set_role_permission_level" ->
                        Set("role_mappings", call.role_id, call.level)
                 [] call.op = "set_role_classification" ->
                        Set("role_classifications", call.role_id,
                            call.role_type)
                 [] call.op = "set_command_requirement" ->
                        Set("node_overrides", call.command_node, call.level)
                 [] call.op = "auto_configure_guild" ->
                        \* the configuration is updated and the audit
                        \* entry appended; then _save_audit_entry
                        [MarkStale([Self EXCEPT !.guild_configs =
                            Put(configs, call.guild_id,
                                [configs[call.guild_id] EXCEPT
                                    !.role_classifications =
                                        Update(@, call.analysis
                                                    .role_classifications),
                                    !.role_mappings =
                                        Update(@, call.analysis
                                                    .confident_mappings),
                                    !.auto_configured = TRUE,
                                    !.configured_by = call.actor_id,
                                    !.configured_at = now])])
                         EXCEPT !.audit_log =
                            Append(@, PermissionAuditEntry(
                                "auto_configure", "guild", call.guild_id,
                                call.analysis, call.actor_id,
                                call.guild_id, now))]
                 [] call.op = "reset_guild_config" ->
                        \* del self.guild_configs[guild_id]; then
                        \* persistence.delete_guild_config
                        IF call.guild_id \in DOMAIN guild_configs
                        THEN MarkStale([Self EXCEPT !.guild_configs =
                                           Del(@, call.guild_id)])
                        ELSE Self
           \* old_level and old_type, read before the change
           old_level ==
               IF call.op = "set_command_requirement"
               THEN Get(config.node_overrides, call.command_node, NoLevel)
               ELSE Get(config.role_mappings, call.role_id, NoLevel)
           old_type == Get(config.role_classifications, call.role_id, "None")
       IN  /\ Commit(first)
           /\ pending' = pending \cup
                            {[task |-> call.op, call |-> call,
                              old_level |-> old_level, old_type |-> old_type,
                              since |-> now]}
    /\ lastOp' = [NoOp EXCEPT !.op = call.op, !.guild_id = call.guild_id,
                              !.actor_id = call.actor_id,
                              !.outcome = "suspended", !.at = now]
    /\ mutations' = mutations + 1
    /\ UNCHANGED <<phase, now, member_roles>>

(* The database has answered and the task runs to its end.  db_fails: the *)
(* call to the database raised; only delete_guild_config lets the          *)
(* exception through.                                                      *)
ResumeMutation(f, db_fails) ==
    /\ phase = "running"
    /\ f \in pending
    /\ f.task # "reset_config"
    /\ LET call == f.call
           \* self.audit_log.append(audit_entry); then _save_audit_entry
           Log(action, target_type, target_id, data) ==
               [Self EXCEPT !.audit_log =
                   Append(@, PermissionAuditEntry(
                                 action, target_type, target_id, data,
                                 call.actor_id, call.guild_id, now))]
           rest ==
               CASE f.task = "set_role_permission_level" ->
                        Log("set_role", "role", call.role_id,
                            <<f.old_level, call.level>>)
                 [] f.task = "set_role_classification" ->
                        Log("set_role_type", "role", call.role_id,
                            <<f.old_type, call.role_type>>)
                 [] f.task = "set_command_requirement" ->
                        Log("set_command", "command", call.command_node,
                            <<f.old_level, call.level>>)
                 [] f.task = "auto_configure_guild" -> clear_cache(Self)
                 [] f.task = "reset_guild_config" ->
                        IF delete_guild_config(db_fails) THEN Self
                        ELSE [clear_cache(Self) EXCEPT !.audit_log =
                                Append(@, PermissionAuditEntry(
                                    "reset_config", "guild", call.guild_id,
                                    "Reset to defaults", call.actor_id,
                                    call.guild_id, now))]
       IN  /\ Commit(rest)
           /\ lastOp' = [NoOp EXCEPT
                            !.op = f.task, !.guild_id = call.guild_id,
                            !.actor_id = call.actor_id,
                            !.db_fails = db_fails,
                            !.outcome =
                                IF /\ f.task = "reset_guild_config"
                                   /\ delete_guild_config(db_fails)
                                THEN "raised" ELSE "returned",
                            !.at = now]
    /\ pending' = pending \ {f}
    /\ UNCHANGED <<phase, now, mutations, member_roles>>

(* Member 2 of G1, who holds role 101, is checked while the operations    *)
(* run; role 101 is mapped to MODERATOR at the start.                      *)
NextTasks ==
    LET Member == User(2, TRUE, {101}, {})
        NoCall ==
            [op |-> "", guild_id |-> 10, actor_id |-> 1, role_id |-> None,
             command_node |-> "", level |-> NoLevel, role_type |-> "",
             analysis |-> [confident_mappings |-> EmptyMap,
                           uncertain_roles |-> {},
                           role_classifications |-> EmptyMap]]
        Calls ==
            {[NoCall EXCEPT !.op = "set_role_permission_level",
                            !.role_id = 101, !.level = LEAD_ADMIN],
             [NoCall EXCEPT !.op = "set_role_classification",
                            !.role_id = 101, !.role_type = "cosmetic"],
             [NoCall EXCEPT !.op = "set_command_requirement",
                            !.command_node = "moderation.kick",
                            !.level = LEAD_ADMIN],
             [NoCall EXCEPT !.op = "auto_configure_guild",
                            !.analysis =
                                analyze_guild_roles(
                                    Guild([p \in 1..3 |-> StaffRole(p)],
                                          100, {}))],
             [NoCall EXCEPT !.op = "reset_guild_config"]}
    IN  \/ \E call \in Calls : BeginMutation(call)
        \/ \E f \in pending, db_fails \in BOOLEAN :
              ResumeMutation(f, db_fails)
        \/ CheckPermission(Member, "moderation.kick", Ch1, G1)
        \/ GetUserPermissionLevel(Member, G1)

SpecTasks ==
    InitRunning(Map1(10, ConfigWith(Map1(101, MODERATOR), EmptyMap)), <<>>, 0)
        /\ [][NextTasks]_vars

-----------------------------------------------------------------------------
(* The properties.  lastOp is the operation that led to the state: its    *)
(* arguments, its result, and whether it computed the result or read it    *)
(* from a cache.                                                           *)

Checked == lastOp.op = "check_permission" /\ lastOp.computed
Levelled == lastOp.op = "get_user_permission_level" /\ lastOp.computed

(* What get_user_permission_level(user, guild) returns in this state. *)
LevelReturned(user, guild) ==
    get_user_permission_level(Self, user, guild, now).level

(* The override is for the user, or for a role the member holds. *)
Targets(o, user) ==
    \/ o.target_type = "user" /\ o.target_id = user.id
    \/ o.target_type = "role" /\ user.member /\ o.target_id \in user.roles

Unexpired(o, t) == o.expires_at = NoExpiry \/ o.expires_at >= t

(* The override's scope covers the context of the call. *)
InScope(o, channel, guild) ==
    \/ o.scope_type = "global"
    \/ o.scope_type = "guild" /\ guild # NoGuild /\ o.scope_id = guild.id
    \/ o.scope_type = "channel" /\ channel # NoChannel
                                /\ o.scope_id = channel.id
    \/ o.scope_type = "category" /\ channel # NoChannel
                                 /\ channel.category # None
                                 /\ o.scope_id = channel.category

(* The indices of the unexpired overrides for (user, node) that apply to   *)
(* the context.                                                            *)
Applying(user, node, channel, guild) ==
    {i \in 1..Len(overrides) :
        /\ overrides[i].permission_node = node
        /\ Targets(overrides[i], user)
        /\ Unexpired(overrides[i], now)
        /\ InScope(overrides[i], channel, guild)}

LastApplying ==
    Applying(lastOp.user, lastOp.node, lastOp.channel, lastOp.guild)

Specificity(o) ==
    CASE o.scope_type = "channel" -> 4
      [] o.scope_type = "category" -> 3
      [] o.scope_type = "guild" -> 2
      [] OTHER -> 1

(* The node's required level in the guild of the call. *)
EffectiveRequired(node, guild) ==
    IF /\ guild # NoGuild
       /\ guild.id \in DOMAIN guild_configs
       /\ node \in DOMAIN guild_configs[guild.id].node_overrides
    THEN guild_configs[guild.id].node_overrides[node]
    ELSE nodes[node].default_level

ScopeAllowed(node, channel) ==
    \/ nodes[node].scope_restrictions = {}
    \/ /\ channel # NoChannel
       /\ \/ channel.id \in nodes[node].scope_restrictions
          \/ /\ channel.category # None
             /\ channel.category \in nodes[node].scope_restrictions

RoleAllowed(node, user) ==
    \/ nodes[node].role_restrictions = {}
    \/ user.member /\ user.roles \cap nodes[node].role_restrictions # {}

C1_Case ==
    /\ Checked
    /\ lastOp.node \in DOMAIN nodes
    /\ LastApplying = {}
    /\ LevelReturned(lastOp.user, lastOp.guild) # BANNED

(* C1: with no override applying and a user who is not BANNED,            *)
(* check_permission on a registered node is true exactly when the user's   *)
(* level reaches the node's effective required level and the node's scope  *)
(* and role restrictions are met.                                          *)
C1_LevelAndRestrictions ==
    C1_Case =>
        (lastOp.result <=>
            /\ LevelReturned(lastOp.user, lastOp.guild)
                   >= EffectiveRequired(lastOp.node, lastOp.guild)
            /\ ScopeAllowed(lastOp.node, lastOp.channel)
            /\ RoleAllowed(lastOp.node, lastOp.user))

(* A member is let through a node with both restrictions by the category   *)
(* of the channel.                                                         *)
C1_Witness ==
    /\ C1_Case
    /\ lastOp.result
    /\ nodes[lastOp.node].scope_restrictions # {}
    /\ nodes[lastOp.node].role_restrictions # {}
    /\ lastOp.channel.id \notin nodes[lastOp.node].scope_restrictions

(* C2: check_permission on a name that is not in the registry returns     *)
(* false, whoever the user and whatever the context, and does not raise.   *)
C2_UnknownNodeDenied ==
    (lastOp.op = "check_permission" /\ lastOp.node \notin DOMAIN nodes)
        => (~lastOp.result /\ lastOp.outcome = "returned")

(* A bot owner with a grant override for the unknown name is denied. *)
C2_Witness ==
    /\ Checked
    /\ lastOp.node \notin DOMAIN nodes
    /\ lastOp.user.id \in OWNER_IDS
    /\ \E i \in LastApplying : overrides[i].granted
    /\ ~lastOp.result

C3_Case ==
    /\ Checked
    /\ LevelReturned(lastOp.user, lastOp.guild) = BANNED

(* C3: when get_user_permission_level gives BANNED, check_permission is   *)
(* false, also when an unexpired grant override applies to the context.    *)
C3_BannedDenied == C3_Case => ~lastOp.result

C3_Witness ==
    /\ C3_Case
    /\ lastOp.node \in DOMAIN nodes
    /\ \A i \in LastApplying : overrides[i].granted
    /\ LastApplying # {}
    /\ ~lastOp.result

(* The result is the granted flag of the applying override that is more   *)
(* specific than every other one.                                          *)
MostSpecificDecides ==
    \A i \in LastApplying :
        (\A j \in LastApplying \ {i} :
            Specificity(overrides[j]) < Specificity(overrides[i]))
        => lastOp.result = overrides[i].granted

(* C4 as stated: when unexpired overrides for (user, node) apply to the   *)
(* context, check_permission returns the granted flag of the most specific *)
(* one, whatever the user's level and the node's restrictions.             *)
C4_MostSpecificOverride == Checked => MostSpecificDecides

C4_Case ==
    /\ Checked
    /\ lastOp.node \in DOMAIN nodes
    /\ LevelReturned(lastOp.user, lastOp.guild) # BANNED

(* C4, amended: on a registered node and for a user whose level is not    *)
(* BANNED, check_permission returns the granted flag of the most specific  *)
(* unexpired override that applies, whatever the user's level and the      *)
(* node's restrictions, and whichever override grants and whichever        *)
(* denies.                                                                 *)
C4_MostSpecificUnlessBanned == C4_Case => MostSpecificDecides

(* A channel grant defeats a less specific deny for a user below the      *)
(* node's required level.                                                  *)
C4_Witness ==
    /\ C4_Case
    /\ lastOp.result
    /\ LevelReturned(lastOp.user, lastOp.guild)
           < EffectiveRequired(lastOp.node, lastOp.guild)
    /\ \E i, j \in LastApplying :
            /\ overrides[i].granted /\ ~overrides[j].granted
            /\ \A k \in LastApplying \ {i} :
                    Specificity(overrides[k]) < Specificity(overrides[i])

WithoutExpired(ovs, t) == SelectSeq(ovs, LAMBDA o : Unexpired(o, t))

(* C5: an override that has expired is inert: get_user_permission_level   *)
(* and an uncached check_permission return what they return without it.    *)
C5_ExpiredInert ==
    /\ Checked =>
        lastOp.result =
            check_permission_internal(
                [Self EXCEPT !.overrides = WithoutExpired(overrides, now),
                             !.user_permission_cache = EmptyMap,
                             !.permission_check_cache = EmptyMap],
                lastOp.user, lastOp.node, lastOp.channel, lastOp.guild,
                now).result
    /\ Levelled =>
        lastOp.level =
            calculate_user_permission_level(
                WithoutExpired(overrides, now), guild_configs, lastOp.user,
                lastOp.guild).level

(* The required level, read off the configuration and the registry. *)
RequiredLevelOf(config, node) ==
    IF node \in DOMAIN config.node_overrides
    THEN config.node_overrides[node]
    ELSE IF node \in DOMAIN nodes THEN nodes[node].default_level
    ELSE OWNER

C6_Lookup ==
    \A g \in DOMAIN guild_configs, n \in NodeNames :
        get_required_level(guild_configs[g], n, nodes)
            = RequiredLevelOf(guild_configs[g], n)

C6_Set ==
    lastOp'.op = "set_command_requirement" =>
        /\ get_required_level(guild_configs'[lastOp'.guild_id], lastOp'.node,
                              nodes') = lastOp'.new_level
        /\ \A g \in {10, 20} \ {lastOp'.guild_id}, n \in NodeNames :
              get_required_level(ConfigOf(guild_configs', g), n, nodes')
                  = get_required_level(ConfigOf(guild_configs, g), n, nodes)

(* C6: get_required_level returns the guild's node_overrides entry when   *)
(* there is one (registered node or not), else the registry's default      *)
(* level, else OWNER; after set_command_requirement(guild, node, L) it     *)
(* returns L for that guild and what it returned before for the others.    *)
C6_RequiredLevel == []C6_Lookup /\ [][C6_Set]_vars

(* A requirement was set for an unregistered node in one guild while the  *)
(* other guild has a requirement of its own.                               *)
C6_Witness ==
    /\ lastOp.op = "set_command_requirement"
    /\ lastOp.node \notin DOMAIN nodes
    /\ \E g \in DOMAIN guild_configs \ {lastOp.guild_id} :
          guild_configs[g].node_overrides # EmptyMap
    /\ get_required_level(guild_configs[lastOp.guild_id], lastOp.node, nodes)
           = lastOp.new_level

(* A ban override for the user: a deny at global scope, or at the scope   *)
(* of the guild of the call.                                               *)
BanApplies(user, guild) ==
    \E i \in 1..Len(overrides) :
        /\ overrides[i].target_type = "user"
        /\ overrides[i].target_id = user.id
        /\ ~overrides[i].granted
        /\ \/ overrides[i].scope_type = "global"
           \/ /\ overrides[i].scope_type = "guild"
              /\ guild # NoGuild
              /\ overrides[i].scope_id = guild.id

(* C7: the uncached level is BOT_OWNER for a user of the allowlist; else  *)
(* BANNED under a ban override; else EVERYONE without a guild; else OWNER  *)
(* for the guild's owner.                                                  *)
C7_LevelOrder ==
    Levelled =>
        LET user == lastOp.user
            guild == lastOp.guild
        IN  CASE user.id \in OWNER_IDS -> lastOp.level = BOT_OWNER
              [] user.id \notin OWNER_IDS /\ BanApplies(user, guild) ->
                    lastOp.level = BANNED
              [] user.id \notin OWNER_IDS /\ ~BanApplies(user, guild)
                 /\ guild = NoGuild -> lastOp.level = EVERYONE
              [] user.id \notin OWNER_IDS /\ ~BanApplies(user, guild)
                 /\ guild # NoGuild /\ guild.owner_id = user.id ->
                    lastOp.level = OWNER
              [] OTHER -> TRUE

(* A bot owner under a ban override is BOT_OWNER. *)
C7_Witness ==
    /\ Levelled
    /\ lastOp.user.id \in OWNER_IDS
    /\ BanApplies(lastOp.user, lastOp.guild)
    /\ lastOp.level = BOT_OWNER

(* The levels the guild maps the member's roles to. *)
MappedLevels(user, guild) ==
    {guild_configs[guild.id].role_mappings[r] :
        r \in user.roles \cap DOMAIN guild_configs[guild.id].role_mappings}

Max(S) == CHOOSE x \in S : \A y \in S : y <= x

HeuristicLevel(perms) ==
    IF perms \cap {"kick_members", "ban_members", "manage_messages",
                   "moderate_members"} # {}
    THEN MODERATOR
    ELSE IF Cardinality(perms \cap {"external_emojis", "attach_files",
                                    "embed_links", "create_public_threads"})
                >= 2
    THEN MEMBER
    ELSE EVERYONE

C8_Case ==
    /\ Levelled
    /\ lastOp.user.member
    /\ lastOp.guild # NoGuild
    /\ lastOp.user.id \notin OWNER_IDS
    /\ ~BanApplies(lastOp.user, lastOp.guild)
    /\ lastOp.guild.owner_id # lastOp.user.id

(* C8: a member who is not bot owner, banned or guild owner is LEAD_ADMIN *)
(* or ADMIN with the administrator flag (LEAD_ADMIN when a role is mapped  *)
(* to it); without the flag the maximum of the mapped levels of the roles, *)
(* and when that is EVERYONE the level the Discord permissions suggest.    *)
C8_MemberLevel ==
    C8_Case =>
        LET mapped == MappedLevels(lastOp.user, lastOp.guild)
            perms == lastOp.user.guild_permissions
            top == Max(mapped \cup {EVERYONE})
        IN  lastOp.level =
                IF "administrator" \in perms
                THEN IF LEAD_ADMIN \in mapped THEN LEAD_ADMIN ELSE ADMIN
                ELSE IF top # EVERYONE THEN top
                ELSE HeuristicLevel(perms)

(* A role mapped to EVERYONE leaves the level to the Discord permissions. *)
C8_Witness ==
    /\ C8_Case
    /\ MappedLevels(lastOp.user, lastOp.guild) = {EVERYONE}
    /\ lastOp.level = MODERATOR

MutatingOps ==
    {"auto_configure_guild", "set_role_permission_level",
     "set_role_classification", "set_command_requirement",
     "reset_guild_config"}

AuditAction(op) ==
    CASE op = "auto_configure_guild" -> "auto_configure"
      [] op = "set_role_permission_level" -> "set_role"
      [] op = "set_role_classification" -> "set_role_type"
      [] op = "set_command_requirement" -> "set_command"
      [] op = "reset_guild_config" -> "reset_config"

(* The step is an invocation of a mutating operation, and the log has one *)
(* entry more, for the operation, its actor and its guild.                 *)
C9_OneEntry ==
    mutations' = mutations + 1 =>
        /\ Len(audit_log') = Len(audit_log) + 1
        /\ audit_log'[Len(audit_log')].action = AuditAction(lastOp'.op)
        /\ audit_log'[Len(audit_log')].actor_id = lastOp'.actor_id
        /\ audit_log'[Len(audit_log')].guild_id = lastOp'.guild_id

(* The entries already in the log stay as they are. *)
C9_AppendOnly ==
    /\ Len(audit_log') >= Len(audit_log)
    /\ \A i \in 1..Len(audit_log) : audit_log'[i] = audit_log[i]

(* C9: every invocation of a mutating operation appends exactly one entry *)
(* to audit_log, with the operation's action name, the actor and the       *)
(* guild, and no operation changes or removes an entry of the log.         *)
C9_AuditPerInvocation == [][C9_OneEntry /\ C9_AppendOnly]_vars

(* C10, first part: when a mutating operation has returned, no cache      *)
(* holds an entry computed before the configuration changed.               *)
C10_NoStaleEntry ==
    (lastOp.op \in MutatingOps /\ lastOp.outcome = "returned") =>
        /\ \A k \in DOMAIN user_permission_cache :
              ~user_permission_cache[k].stale
        /\ \A k \in DOMAIN permission_check_cache :
              ~permission_check_cache[k].stale

(* C10, second part: the check_permission that follows a mutating         *)
(* operation computes its result from the configuration as it is now.      *)
C10_FirstCheck ==
    (/\ lastOp.op \in MutatingOps
     /\ lastOp.outcome = "returned"
     /\ lastOp'.op = "check_permission")
        => /\ lastOp'.computed
           /\ lastOp'.result =
                check_permission_internal(
                    [Self EXCEPT !.user_permission_cache = EmptyMap,
                                 !.permission_check_cache = EmptyMap],
                    lastOp'.user, lastOp'.node, lastOp'.channel,
                    lastOp'.guild, now).result

(* C10: when a mutating operation returns, neither cache holds an entry   *)
(* computed before the operation changed the configuration, and the first  *)
(* check_permission after it reflects the new configuration.               *)
C10_CachesInvalidated == []C10_NoStaleEntry /\ [][C10_FirstCheck]_vars

(* A check was cached, a role was mapped, and the same check, within the   *)
(* lifetime of a cache entry, is computed again.                            *)
C10_Witness ==
    /\ lastOp.op = "check_permission"
    /\ lastOp.computed
    /\ lastOp.result
    /\ mutations > 0
    /\ now < cache_ttl
    /\ check_count = 2
    /\ Len(audit_log) > 0
    /\ audit_log[Len(audit_log)].action = "set_role"
    /\ audit_log[Len(audit_log)].timestamp = now

-----------------------------------------------------------------------------
(* C11: when the persistence adapter raises during one of the five        *)
(* mutating operations the failure is swallowed: the operation returns to  *)
(* its caller, its change of the configuration is in memory (after a       *)
(* reset the guild has no configuration), its audit entry is the last of   *)
(* audit_log and both caches are empty.                                    *)
C11_PersistenceFailureSwallowed ==
    (lastOp.op \in MutatingOps /\ lastOp.db_fails) =>
        /\ lastOp.outcome = "returned"
        /\ Len(audit_log) > 0
        /\ audit_log[Len(audit_log)].action = AuditAction(lastOp.op)
        /\ audit_log[Len(audit_log)].actor_id = lastOp.actor_id
        /\ user_permission_cache = EmptyMap
        /\ permission_check_cache = EmptyMap
        /\ (lastOp.op = "reset_guild_config"
                => lastOp.guild_id \notin DOMAIN guild_configs)
        /\ (lastOp.op = "set_role_permission_level"
                => ConfigOf(guild_configs, lastOp.guild_id)
                      .role_mappings[lastOp.role_id] = lastOp.new_level)
        /\ (lastOp.op = "set_role_classification"
                => ConfigOf(guild_configs, lastOp.guild_id)
                      .role_classifications[lastOp.role_id]
                          = lastOp.role_type)
        /\ (lastOp.op = "set_command_requirement"
                => ConfigOf(guild_configs, lastOp.guild_id)
                      .node_overrides[lastOp.node] = lastOp.new_level)
        /\ (lastOp.op = "auto_configure_guild"
                => ConfigOf(guild_configs, lastOp.guild_id).auto_configured)

-----------------------------------------------------------------------------
(* The step is a call of check_permission. *)
CheckStep == lastOp'.op = "check_permission" /\ check_count' = check_count + 1

CheckKey(op) == <<op.user.id, op.node, op.channel.id, op.guild.id>>

SameCheck(a, b) == CheckKey(a) = CheckKey(b)

(* The second call answers from the cache what the first one returned. *)
AnsweredFromCache ==
    /\ lastOp'.result = lastOp.result
    /\ ~lastOp'.computed
    /\ cache_hits' = cache_hits + 1

(* After clear_cache() the caches are empty, and a check whose arguments  *)
(* are not in the cache runs the computation.                              *)
C12_Cleared == lastOp.op = "clear_cache" => permission_check_cache = EmptyMap

C12_Recomputed ==
    (CheckStep /\ CheckKey(lastOp') \notin DOMAIN permission_check_cache)
        => /\ lastOp'.computed
           /\ lastOp'.result =
                check_permission_internal(Self, lastOp'.user, lastOp'.node,
                    lastOp'.channel, lastOp'.guild, now).result

(* Two check_permission calls, one after the other with no operation of   *)
(* the manager between them, with the same arguments and less than 300 s   *)
(* apart.                                                                  *)
C12_Consecutive ==
    (/\ lastOp.op = "check_permission"
     /\ CheckStep
     /\ SameCheck(lastOp, lastOp')
     /\ now - lastOp.at < cache_ttl) => AnsweredFromCache

(* C12 as stated: two consecutive check_permission calls with identical   *)
(* arguments less than 300 s apart, with no cache clear between them,      *)
(* return the same result and the second is a cache hit; after             *)
(* clear_cache() the next call computes again.                             *)
C12_ConsecutiveChecks ==
    []C12_Cleared /\ [][C12_Consecutive /\ C12_Recomputed]_vars

(* After a check_permission the cache holds its result, stamped with the  *)
(* time of the computation that produced it.                               *)
C12_Stored ==
    lastOp.op = "check_permission" =>
        /\ CheckKey(lastOp) \in DOMAIN permission_check_cache
        /\ permission_check_cache[CheckKey(lastOp)].value = lastOp.result
        /\ permission_check_cache[CheckKey(lastOp)].timestamp <= lastOp.at
        /\ lastOp.computed =>
               permission_check_cache[CheckKey(lastOp)].timestamp = lastOp.at

C12_WithinTTL ==
    (/\ lastOp.op = "check_permission"
     /\ CheckStep
     /\ SameCheck(lastOp, lastOp')
     /\ now - permission_check_cache[CheckKey(lastOp)].timestamp < cache_ttl)
        => AnsweredFromCache

(* C12, amended: the second of two consecutive check_permission calls     *)
(* with identical arguments, made less than 300 s after the computation    *)
(* that produced the first one's result and with no cache clear between    *)
(* them, returns the same result from the cache (cache_hits increases by   *)
(* one, nothing is computed); after clear_cache() the next call computes.  *)
C12_CachedWithinTTL ==
    /\ [](C12_Cleared /\ C12_Stored)
    /\ [][C12_WithinTTL /\ C12_Recomputed]_vars

(* The second call is answered from an entry computed 200 s earlier,      *)
(* after the member lost the role.                                         *)
C12_Witness ==
    /\ lastOp.op = "check_permission"
    /\ ~lastOp.computed
    /\ lastOp.result
    /\ lastOp.at = 200
    /\ now = 200
    /\ check_count = 2
    /\ cache_hits = 1
    /\ permission_check_cache[CheckKey(lastOp)].timestamp = 0
    /\ RolesNow = {}

-----------------------------------------------------------------------------
(* The step is a call of get_user_permission_level. *)
LevelStep ==
    /\ lastOp'.op = "get_user_permission_level"
    /\ lastOp'.at = now
    /\ now' = now
    /\ member_roles' = member_roles

(* The instants no more than 300 s before t.  The clock and the changes   *)
(* of the member's roles fall on the multiples of the tick, so between     *)
(* two of them nothing changes.                                            *)
Window(t) ==
    {tau \in (IF t > cache_ttl THEN t - cache_ttl ELSE 0)..t :
        \E d \in CacheTicks : tau % d = 0}

(* The role sets the member had at some moment of instant tau. *)
HeldAt(tau) ==
    {member_roles[i][2] :
        i \in {j \in 1..Len(member_roles) :
                 /\ member_roles[j][1] <= tau
                 /\ j = Len(member_roles) \/ member_roles[j + 1][1] >= tau}}

(* The manager with nothing in its caches: what it computes is fresh. *)
Uncached ==
    [Self EXCEPT !.user_permission_cache = EmptyMap,
                 !.permission_check_cache = EmptyMap]

FreshCheck(op, roles, tau) ==
    check_permission_internal(Uncached,
        [op.user EXCEPT !.roles = roles], op.node, op.channel, op.guild,
        tau).result

FreshLevel(op, roles, tau) ==
    get_user_permission_level(Uncached, [op.user EXCEPT !.roles = roles],
                              op.guild, tau).level

C13_CheckBounded ==
    CheckStep =>
        \E tau \in Window(now) : \E roles \in HeldAt(tau) :
            lastOp'.result = FreshCheck(lastOp', roles, tau)

C13_LevelBounded ==
    LevelStep =>
        \E tau \in Window(now) : \E roles \in HeldAt(tau) :
            lastOp'.level = FreshLevel(lastOp', roles, tau)

(* An entry of age 300 s or more is not returned. *)
C13_NoOldEntry ==
    /\ (CheckStep /\ ~lastOp'.computed) =>
            now - permission_check_cache[CheckKey(lastOp')].timestamp
                < cache_ttl
    /\ (LevelStep /\ ~lastOp'.computed) =>
            now - user_permission_cache[
                      <<lastOp'.user.id, lastOp'.guild.id>>].timestamp
                < cache_ttl

(* C13: every result check_permission or get_user_permission_level        *)
(* returns is the result a computation without the caches would have       *)
(* produced at some instant no more than 300 s before the call, and no     *)
(* cache entry of age 300 s or more is returned.                           *)
C13_BoundedStaleness ==
    [][C13_CheckBounded /\ C13_LevelBounded /\ C13_NoOldEntry]_vars

-----------------------------------------------------------------------------
(* role_classifications[role] of the guild, "None" when there is none *)
ClassificationOf(configs, guild_id, role_id) ==
    IF guild_id \in DOMAIN configs
    THEN Get(configs[guild_id].role_classifications, role_id, "None")
    ELSE "None"

(* The audit entries of the manual overrides of the role's type. *)
ManualEntries(guild_id, role_id) ==
    {i \in 1..Len(audit_log) :
        /\ audit_log[i].action = "set_role_type"
        /\ audit_log[i].guild_id = guild_id
        /\ audit_log[i].target_id = role_id}

(* The role's type is T, the type of the last manual override of it. *)
ManuallyClassified(guild_id, role_id, T) ==
    /\ ClassificationOf(guild_configs, guild_id, role_id) = T
    /\ \E i \in ManualEntries(guild_id, role_id) :
          /\ \A j \in ManualEntries(guild_id, role_id) : j <= i
          /\ audit_log[i].permission_data[2] = T

(* set_role_classification(guild, role, T) leaves the role with type T    *)
(* and an audit entry with the actor and the time.                         *)
C14_Set ==
    (lastOp'.op = "set_role_classification" /\ mutations' = mutations + 1) =>
        /\ ClassificationOf(guild_configs', lastOp'.guild_id,
                            lastOp'.role_id) = lastOp'.role_type
        /\ Len(audit_log') = Len(audit_log) + 1
        /\ LET entry == audit_log'[Len(audit_log')]
           IN  /\ entry.action = "set_role_type"
               /\ entry.target_id = lastOp'.role_id
               /\ entry.guild_id = lastOp'.guild_id
               /\ entry.permission_data[2] = lastOp'.role_type
               /\ entry.actor_id = lastOp'.actor_id
               /\ entry.timestamp = now

(* No operation but another manual override or a reset changes the type   *)
(* of a manually classified role.                                          *)
C14_Stays ==
    \A g \in {10, 20}, r \in RoleIds, T \in RoleType :
        (/\ ManuallyClassified(g, r, T)
         /\ lastOp'.op \notin {"set_role_classification",
                               "reset_guild_config"})
            => ClassificationOf(guild_configs', g, r) = T

(* C14: after set_role_classification(guild, role, T) the role's type is  *)
(* T, the override is in the audit log with its actor and the time, and    *)
(* the type stays T through every operation that is not another manual     *)
(* override of the role or a reset, a later auto_configure_guild included. *)
C14_ManualOverrideWins == [][C14_Set /\ C14_Stays]_vars

-----------------------------------------------------------------------------
(* analyze_guild_roles was applied to a guild. *)
Analyzed == lastOp.op = "analyze_guild_roles"

(* The indices of the guild's roles that were classified AUTHORITY. *)
AuthorityRoles ==
    {i \in 1..Len(lastOp.guild.roles) :
        lastOp.analysis.role_classifications[lastOp.guild.roles[i].id]
            = "authority"}

(* The level the analysis mapped role i to, NoLevel without a mapping. *)
MappedTo(i) ==
    Get(lastOp.analysis.confident_mappings, lastOp.guild.roles[i].id,
        NoLevel)

(* The 0-based index of role i among the authority roles, highest         *)
(* position first.                                                         *)
AuthorityIndex(i) ==
    Cardinality({j \in AuthorityRoles :
        lastOp.guild.roles[j].position > lastOp.guild.roles[i].position})

(* The level of the percentile rule for index i of count roles. *)
PercentileLevel(i, count) ==
    IF count = 1 THEN ADMIN
    ELSE IF 10 * i <= 1 * count THEN LEAD_ADMIN
    ELSE IF 10 * i <= 3 * count THEN ADMIN
    ELSE IF 10 * i <= 5 * count THEN LEAD_MOD
    ELSE IF 10 * i <= 7 * count THEN MODERATOR
    ELSE MEMBER

OwnerFlagged(i) == is_owner_role(lastOp.guild.roles[i], lastOp.guild)

NameMatch(i) == analyze_authority_name(lastOp.guild.roles[i].name)

(* The name of role i matches a pattern with a confidence above 0.7. *)
ConfidentName(i) ==
    NameMatch(i).level # NoLevel /\ NameMatch(i).confidence > 70

(* C15: each AUTHORITY role gets OWNER when it is flagged as the owner's  *)
(* role, otherwise the level of its name when the name matches with a      *)
(* confidence strictly above 0.7, otherwise the level of the position      *)
(* rule; a match of confidence exactly 0.70 takes the position rule.       *)
C15_HierarchyOrder ==
    Analyzed =>
        \A i \in AuthorityRoles :
            LET owner == OwnerFlagged(i)
                name == NameMatch(i)
                by_position ==
                    PercentileLevel(AuthorityIndex(i),
                                    Cardinality(AuthorityRoles))
            IN  /\ owner => MappedTo(i) = OWNER
                /\ (~owner /\ name.level # NoLevel /\ name.confidence > 70)
                      => MappedTo(i) = name.level
                /\ (~owner /\ ~(name.level # NoLevel
                                 /\ name.confidence > 70))
                      => MappedTo(i) = by_position
                /\ (~owner /\ name.confidence = 70)
                      => MappedTo(i) = by_position

(* 'Executive', the highest of three authority roles and not the owner's  *)
(* role, is mapped by its position and not to the ADMIN of its name.       *)
C15_Witness ==
    /\ Analyzed
    /\ \E i \in AuthorityRoles :
          /\ lastOp.guild.roles[i].name = <<"E", "x", "e", "c", "u", "t", "i", "v", "e">>
          /\ ~OwnerFlagged(i)
          /\ NameMatch(i).level = ADMIN
          /\ NameMatch(i).confidence = 70
          /\ Cardinality(AuthorityRoles) = 3
          /\ AuthorityIndex(i) = 0
          /\ MappedTo(i) = LEAD_ADMIN
    /\ \E j \in AuthorityRoles :
          OwnerFlagged(j) \/ ConfidentName(j) \/ MappedTo(j) # LEAD_ADMIN

(* The authority roles that take the position rule. *)
ByPosition == {i \in AuthorityRoles : ~OwnerFlagged(i) /\ ~ConfidentName(i)}

(* C16: an authority role that takes the position rule gets ADMIN when    *)
(* it is the only authority role, and otherwise, with index i among the    *)
(* count authority roles sorted by position descending, LEAD_ADMIN if      *)
(* i/count <= 0.10, ADMIN if <= 0.30, LEAD_MOD if <= 0.50, MODERATOR if    *)
(* <= 0.70, else MEMBER, the bounds inclusive; of 10 such roles the first  *)
(* gets LEAD_ADMIN and the last MEMBER; the level never increases with     *)
(* the index.                                                              *)
C16_PositionFallback ==
    Analyzed =>
        LET count == Cardinality(AuthorityRoles)
        IN  /\ \A i \in ByPosition :
                  /\ count = 1 => MappedTo(i) = ADMIN
                  /\ count > 1 =>
                        MappedTo(i) =
                            CASE 10 * AuthorityIndex(i) <= 1 * count
                                    -> LEAD_ADMIN
                              [] 10 * AuthorityIndex(i) > 1 * count
                                 /\ 10 * AuthorityIndex(i) <= 3 * count
                                    -> ADMIN
                              [] 10 * AuthorityIndex(i) > 3 * count
                                 /\ 10 * AuthorityIndex(i) <= 5 * count
                                    -> LEAD_MOD
                              [] 10 * AuthorityIndex(i) > 5 * count
                                 /\ 10 * AuthorityIndex(i) <= 7 * count
                                    -> MODERATOR
                              [] 10 * AuthorityIndex(i) > 7 * count
                                    -> MEMBER
            /\ \A i, j \in ByPosition :
                  AuthorityIndex(i) < AuthorityIndex(j)
                      => MappedTo(i) >= MappedTo(j)
            /\ (count = 10 /\ ByPosition = AuthorityRoles) =>
                  \A i \in ByPosition :
                      /\ AuthorityIndex(i) = 0 => MappedTo(i) = LEAD_ADMIN
                      /\ AuthorityIndex(i) = 9 => MappedTo(i) = MEMBER

(* Ten authority roles with unclear names: the levels by index are        *)
(* LEAD_ADMIN, LEAD_ADMIN, ADMIN, ADMIN, LEAD_MOD, LEAD_MOD, MODERATOR,    *)
(* MODERATOR, MEMBER, MEMBER.                                              *)
C16_Witness ==
    /\ Analyzed
    /\ Cardinality(AuthorityRoles) = 10
    /\ ByPosition = AuthorityRoles
    /\ \A i \in ByPosition :
          MappedTo(i) =
              <<LEAD_ADMIN, LEAD_ADMIN, ADMIN, ADMIN, LEAD_MOD, LEAD_MOD,
                MODERATOR, MODERATOR, MEMBER, MEMBER>>[AuthorityIndex(i) + 1]

-----------------------------------------------------------------------------
(* classify_role_type was applied to a role of a guild. *)
Classified == lastOp.op = "classify_role_type"

(* The role is not bot-managed and has neither an integration tag nor an  *)
(* integration keyword in its name.                                        *)
NoBotNoIntegration ==
    /\ ~is_bot_managed(lastOp.role)
    /\ ~(lastOp.role.tags.present
         /\ (lastOp.role.tags.bot_id \/ lastOp.role.tags.integration_id
             \/ lastOp.role.tags.premium_subscriber))
    /\ ~ContainsAny(normalize_discord_text(lastOp.role.name),
                    integration_patterns)

Overwritten == lastOp.role.id \in lastOp.guild.overwritten

(* The name contains none of the eleven authority keywords. *)
NoAuthorityName ==
    ~ContainsAny(normalize_discord_text(lastOp.role.name),
                 authority_name_patterns)

(* A role with manage_roles, an overwrite and no authority name. *)
C17_Case ==
    /\ Classified
    /\ NoBotNoIntegration
    /\ "manage_roles" \in lastOp.role.permissions
    /\ Overwritten
    /\ NoAuthorityName

(* C17 as stated: a role that is no bot and no integration, holds         *)
(* manage_roles, has a channel or category overwrite and no authority      *)
(* keyword in its name is classified FUNCTIONAL.                           *)
C17_ManageRolesFunctional == C17_Case => lastOp.role_type = "functional"

(* C17: a role that is no bot and no integration, holds manage_roles, has *)
(* a channel or category overwrite and no authority keyword in its name    *)
(* is classified AUTHORITY: manage_roles is an authority permission, and   *)
(* the overwrite decides only for a role without one.                      *)
C17_ManageRolesAuthority == C17_Case => lastOp.role_type = "authority"

(* 'DJ' with manage_roles and an overwrite, the lowest of three roles, is *)
(* classified AUTHORITY.                                                   *)
C17_Witness ==
    /\ C17_Case
    /\ lastOp.role.name = <<"D", "J">>
    /\ lastOp.role.permissions = {"manage_roles"}
    /\ lastOp.role.position = 1
    /\ lastOp.role_type = "authority"

(* The role is in the top 30% of the guild's roles: its position is above *)
(* 0.7 of len(guild.roles).                                                *)
TopThirty ==
    /\ Len(lastOp.guild.roles) + 1 > 1
    /\ 10 * lastOp.role.position > 7 * (Len(lastOp.guild.roles) + 1)

(* C18: a role that is neither a bot's nor an integration's and holds an  *)
(* authority-indicating permission, or is in the top 30% of the hierarchy  *)
(* with at least one permission, is classified AUTHORITY, with or without  *)
(* a channel or category overwrite.                                        *)
C18_OverwriteKeepsAuthority ==
    (/\ Classified
     /\ NoBotNoIntegration
     /\ \/ lastOp.role.permissions \cap
              {"administrator", "manage_guild", "manage_roles",
               "manage_channels", "kick_members", "ban_members",
               "moderate_members", "manage_messages", "mute_members",
               "deafen_members", "move_members"} # {}
        \/ TopThirty /\ lastOp.role.permissions # {})
        => lastOp.role_type = "authority"

(* 'DJ' with send_messages only and an overwrite, the highest of three    *)
(* roles, is classified AUTHORITY.                                         *)
C18_Witness ==
    /\ Classified
    /\ NoBotNoIntegration
    /\ Overwritten
    /\ TopThirty
    /\ lastOp.role.name = <<"D", "J">>
    /\ lastOp.role.permissions = {"send_messages"}
    /\ lastOp.role_type = "authority"

(* The role of the classification is named 'Member'. *)
NamedMember == lastOp.role.name = <<"M", "e", "m", "b", "e", "r">>

(* C19: a role that is neither a bot's nor an integration's, has a        *)
(* channel or category overwrite, holds no authority permission, has none  *)
(* of the eleven authority keywords in its name and fails the              *)
(* verification-role heuristic is classified FUNCTIONAL; a role named      *)
(* 'Member' with an overwrite is AUTHORITY only when at least 0.4 of the   *)
(* guild's members hold it, and FUNCTIONAL otherwise.                      *)
C19_RuleThreeFunctional ==
    (/\ Classified
     /\ NoBotNoIntegration
     /\ Overwritten
     /\ ~has_authority_permissions(lastOp.role, lastOp.guild))
        => /\ (NoAuthorityName
               /\ ~is_verification_role(lastOp.role, lastOp.guild))
                 => lastOp.role_type = "functional"
           /\ NamedMember =>
                 /\ lastOp.role_type = "authority"
                      => 10 * lastOp.role.members.count
                            >= 4 * lastOp.guild.member_count
                 /\ 10 * lastOp.role.members.count
                        < 4 * lastOp.guild.member_count
                      => lastOp.role_type = "functional"

(* The role is bot-managed or has a bot id in its tags. *)
BotSignal(role) == role.tags.present /\ role.tags.bot_id

(* The role has an integration id or the premium-subscriber tag, or its   *)
(* normalized name contains booster, boost, nitro or premium.              *)
IntegrationSignal(role) ==
    \/ role.tags.present
       /\ (role.tags.integration_id \/ role.tags.premium_subscriber)
    \/ \E word \in {<<"b", "o", "o", "s", "t", "e", "r">>,
                    <<"b", "o", "o", "s", "t">>, <<"n", "i", "t", "r", "o">>,
                    <<"p", "r", "e", "m", "i", "u", "m">>} :
          Contains(normalize_discord_text(role.name), word)

(* The type the rules for bots and integrations give the role, "" when    *)
(* neither applies.                                                        *)
FirstRules(role) ==
    IF BotSignal(role) THEN "bot"
    ELSE IF IntegrationSignal(role) THEN "integration"
    ELSE ""

(* C20: the first matching rule decides.  A bot-managed or bot-tagged     *)
(* role is BOT whatever its permissions, name, members or overwrites;      *)
(* otherwise a role with an integration id or premium-subscriber tag, or   *)
(* with booster, boost, nitro or premium in its normalized name, is        *)
(* INTEGRATION even with administrator or another authority permission.    *)
(* In the analysis of a guild such a role is not among the authority       *)
(* roles and gets no mapping.                                              *)
C20_BotAndIntegrationFirst ==
    /\ (Classified /\ FirstRules(lastOp.role) # "")
          => lastOp.role_type = FirstRules(lastOp.role)
    /\ Analyzed =>
          \A i \in 1..Len(lastOp.guild.roles) :
              LET role == lastOp.guild.roles[i]
              IN  FirstRules(role) # "" =>
                     /\ lastOp.analysis.role_classifications[role.id]
                           = FirstRules(role)
                     /\ i \notin AuthorityRoles
                     /\ role.id \notin
                           DOMAIN lastOp.analysis.confident_mappings

(* 'Server Booster' with administrator, the highest of three roles and    *)
(* overwritten, is an integration without a mapping, while the two staff   *)
(* roles below it are mapped.                                              *)
C20_Witness ==
    /\ Analyzed
    /\ Len(lastOp.guild.roles) = 3
    /\ LET role == lastOp.guild.roles[3]
       IN  /\ role.name = <<"S", "e", "r", "v", "e", "r", " ", "B", "o", "o", "s", "t", "e", "r">>
           /\ role.tags = NoTags
           /\ role.permissions = {"administrator"}
           /\ role.id \in lastOp.guild.overwritten
           /\ lastOp.analysis.role_classifications[role.id] = "integration"
           /\ role.id \notin DOMAIN lastOp.analysis.confident_mappings
    /\ AuthorityRoles = {1, 2}
    /\ MappedTo(1) # NoLevel
    /\ MappedTo(2) # NoLevel

-----------------------------------------------------------------------------
(* is_owner_role was applied to a role of a guild. *)
OwnerTested == lastOp.op = "is_owner_role"

(* The four factors of the role, and their weights in tenths. *)
OwnerHeld == lastOp.role.members.owner
TopTen == 10 * lastOp.role.position > 9 * (Len(lastOp.guild.roles) + 1)
Administrator == "administrator" \in lastOp.role.permissions
SmallMembership ==
    1 <= lastOp.role.members.count /\ lastOp.role.members.count <= 3

WeightedSum ==
    (IF OwnerHeld THEN 4 ELSE 0) + (IF TopTen THEN 3 ELSE 0)
        + (IF Administrator THEN 2 ELSE 0)
        + (IF SmallMembership THEN 1 ELSE 0)

(* C21: is_owner_role is true exactly when the weighted sum of the four   *)
(* factors (owner holds the role 0.4, top 10% of the positions 0.3,        *)
(* administrator 0.2, 1 to 3 members 0.1) is strictly greater than 0.6; a  *)
(* sum of exactly 0.6 or less does not qualify, 0.7 or more does.          *)
C21_OwnerThreshold == OwnerTested => (lastOp.result <=> WeightedSum > 6)

-----------------------------------------------------------------------------
(* get_channels_to_analyze was applied to a guild. *)
Selected == lastOp.op = "get_channels_to_analyze"

(* The first n elements of s, all of s when it is shorter. *)
FirstOf(s, n) == SubSeq(s, 1, IF Len(s) < n THEN Len(s) ELSE n)

(* The channels of the guild without a category. *)
Uncategorized ==
    SelectSeq(lastOp.guild.channels,
              LAMBDA ch : ch.kind = "text" /\ ch.category = <<>>)

(* The channels the priority part is taken from: the first 5 of each of   *)
(* the first 3 categories and the first 5 without a category.              *)
PriorityCandidates ==
    {FirstOf(lastOp.guild.categories[c].channels, 5)[k] :
        <<c, k>> \in {x \in (1..3) \X (1..5) :
            /\ x[1] <= Len(lastOp.guild.categories)
            /\ x[2] <= Len(lastOp.guild.categories[x[1]].channels)}}
    \cup {FirstOf(Uncategorized, 5)[k] : k \in 1..Len(FirstOf(Uncategorized, 5))}

(* The names drawn for the channels that are core names: 'general',       *)
(* 'support-chat' and 'staff-chat'.                                        *)
CoreNamed(ch) ==
    ch.name \in {<<"g", "e", "n", "e", "r", "a", "l">>,
                 <<"s", "u", "p", "p", "o", "r", "t", "-", "c", "h", "a", "t">>,
                 <<"s", "t", "a", "f", "f", "-", "c", "h", "a", "t">>}

(* The channels the exclusion heuristics match: tickets ('support-chat',  *)
(* 'ticket-0042'), bot channels ('bot-commands'), temporary channels       *)
(* ('event-1'), archives ('old-news', a read-only 'gold', any channel of   *)
(* the category 'Archive').                                                *)
Excluded(ch) ==
    \/ ch.name \in {<<"s", "u", "p", "p", "o", "r", "t", "-", "c", "h", "a", "t">>,
                    <<"t", "i", "c", "k", "e", "t", "-", "0", "0", "4", "2">>,
                    <<"b", "o", "t", "-", "c", "o", "m", "m", "a", "n", "d", "s">>,
                    <<"e", "v", "e", "n", "t", "-", "1">>,
                    <<"o", "l", "d", "-", "n", "e", "w", "s">>}
    \/ ch.name = <<"g", "o", "l", "d">> /\ ch.read_only
    \/ ch.category = <<"A", "r", "c", "h", "i", "v", "e">>

(* The part of the result after the priority channels. *)
FillPart ==
    SubSeq(lastOp.channels, Len(lastOp.priority) + 1, Len(lastOp.channels))

(* C22: get_channels_to_analyze returns at most 50 channels; the          *)
(* priority channels, the core-named ones among the first 5 channels of    *)
(* each of the first 3 categories and the first 5 channels without a       *)
(* category, come before all fill channels; and no fill channel matches    *)
(* the ticket, archive, bot or temporary heuristics.                       *)
C22_BoundedPriorityFirst ==
    Selected =>
        /\ Len(lastOp.channels) <= 50
        /\ {lastOp.priority[i] : i \in 1..Len(lastOp.priority)}
              = {ch \in PriorityCandidates : CoreNamed(ch)}
        /\ FirstOf(lastOp.channels, Len(lastOp.priority))
              = FirstOf(lastOp.priority, 50)
        /\ \A i \in 1..Len(FillPart) : ~Excluded(FillPart[i])

(* A guild with more than 50 channels, core channels beyond the first 3   *)
(* categories and excluded channels: 50 channels are returned, the         *)
(* priority channels and then fill channels.                               *)
C22_Witness ==
    /\ Selected
    /\ Len(lastOp.channels) = 50
    /\ Len(lastOp.priority) > 0
    /\ Len(FillPart) > 0
    /\ \E i \in 1..Len(lastOp.guild.channels) :
          Excluded(lastOp.guild.channels[i])
    /\ \E i \in 1..Len(lastOp.guild.channels) :
          /\ CoreNamed(lastOp.guild.channels[i])
          /\ lastOp.guild.channels[i] \notin PriorityCandidates

(* C30: the sequence get_channels_to_analyze returns holds no channel     *)
(* twice: the fill part holds only channels that are not priority          *)
(* channels.                                                               *)
C30_NoChannelTwice ==
    Selected =>
        \A i, j \in 1..Len(lastOp.channels) :
            i # j => lastOp.channels[i] # lastOp.channels[j]

-----------------------------------------------------------------------------
(* The ids of the roles the analysis mapped and of those it left          *)
(* uncertain.                                                              *)
Mapped == DOMAIN lastOp.analysis.confident_mappings
Uncertain == lastOp.analysis.uncertain_roles

(* C23: every role classified AUTHORITY is either a key of                *)
(* confident_mappings or an element of uncertain_roles and never both; no  *)
(* role of another type is in either; a role is uncertain only if it is    *)
(* not owner-flagged, its name is not confident and the position rule has  *)
(* no level for it, which the rule has for every authority role.           *)
C23_AuthorityPartition ==
    Analyzed =>
        \A i \in 1..Len(lastOp.guild.roles) :
            LET id == lastOp.guild.roles[i].id
            IN  /\ i \in AuthorityRoles => (id \in Mapped) # (id \in Uncertain)
                /\ i \notin AuthorityRoles =>
                      id \notin Mapped /\ id \notin Uncertain
                /\ id \in Uncertain =>
                      /\ ~OwnerFlagged(i)
                      /\ ~ConfidentName(i)
                      /\ i \notin AuthorityRoles

(* Two staff roles mapped by their position and, above them, a role with  *)
(* a bot's tag and administrator that is neither mapped nor uncertain.     *)
C23_Witness ==
    /\ Analyzed
    /\ Len(lastOp.guild.roles) = 3
    /\ AuthorityRoles = {1, 2}
    /\ ByPosition = {1, 2}
    /\ {lastOp.guild.roles[1].id, lastOp.guild.roles[2].id} = Mapped
    /\ lastOp.guild.roles[3].tags.present
    /\ lastOp.guild.roles[3].tags.bot_id
    /\ "administrator" \in lastOp.guild.roles[3].permissions
    /\ lastOp.guild.roles[3].id \notin Mapped \cup Uncertain

-----------------------------------------------------------------------------
(* C29: the counters are consistent in every state: cache_hits is at most  *)
(* check_count, so the hit rate get_cache_stats reports, cache_hits /      *)
(* check_count * 100, is between 0 and 100, and it is 0 when check_count   *)
(* is 0.                                                                   *)
C29_CountersConsistent ==
    LET hit_rate == IF check_count > 0
                    THEN (cache_hits * 100) \div check_count
                    ELSE 0
    IN  /\ cache_hits <= check_count
        /\ hit_rate \in 0..100

-----------------------------------------------------------------------------
(* The overrides without the one at index i: the state before that        *)
(* override was added.                                                     *)
WithoutOverride(i) ==
    [k \in 1..(Len(overrides) - 1) |->
        IF k < i THEN overrides[k] ELSE overrides[k + 1]]

(* The deny overrides for the user of the last operation. *)
DenyOverridesOfUser ==
    {i \in 1..Len(overrides) :
        /\ overrides[i].target_type = "user"
        /\ overrides[i].target_id = lastOp.user.id
        /\ ~overrides[i].granted}

(* C26: an override is scoped to its own node: with a deny override for   *)
(* (user, node N) among the overrides, get_user_permission_level(user,     *)
(* guild) and an uncached check_permission(user, M, channel, guild) for a  *)
(* node M other than N return what they return without that override.      *)
C26_OverrideScopedToNode ==
    /\ Checked =>
        \A i \in DenyOverridesOfUser :
            overrides[i].permission_node # lastOp.node =>
                lastOp.result =
                    check_permission_internal(
                        [Self EXCEPT !.overrides = WithoutOverride(i),
                                     !.user_permission_cache = EmptyMap,
                                     !.permission_check_cache = EmptyMap],
                        lastOp.user, lastOp.node, lastOp.channel,
                        lastOp.guild, now).result
    /\ Levelled =>
        \A i \in DenyOverridesOfUser :
            lastOp.level =
                calculate_user_permission_level(
                    WithoutOverride(i), guild_configs, lastOp.user,
                    lastOp.guild).level

-----------------------------------------------------------------------------
(* The step is an invocation of the command, and the command ended the    *)
(* way named.                                                              *)
CommandEnds(name, outcome) ==
    /\ mutations' = mutations + 1
    /\ lastOp'.op = name
    /\ lastOp'.outcome = outcome

(* C25: when permissions-set-role-type has finished with a valid type T   *)
(* for a role, role_classifications[role] of the guild is T, exactly one   *)
(* set_role_type entry for the role and the actor has been appended to     *)
(* audit_log, and both caches are empty.                                   *)
C25_SetRoleTypeChangesManager ==
    [][CommandEnds("permissions-set-role-type", "updated") =>
        /\ ClassificationOf(guild_configs', lastOp'.guild.id,
                            lastOp'.role_id) = lastOp'.role_type
        /\ Len(audit_log') = Len(audit_log) + 1
        /\ audit_log'[Len(audit_log')].action = "set_role_type"
        /\ audit_log'[Len(audit_log')].target_id = lastOp'.role_id
        /\ audit_log'[Len(audit_log')].actor_id = lastOp'.user.id
        /\ user_permission_cache' = EmptyMap
        /\ permission_check_cache' = EmptyMap]_vars

-----------------------------------------------------------------------------
(* The members of G1 who invoke the commands: neither is in the bot       *)
(* owners' allowlist, and neither has a level of BOT_OWNER.                *)
Commanders ==
    {User(2, TRUE, {102}, {"administrator"}), User(4, TRUE, {101}, {})}

(* The nodes registered with the default level BOT_OWNER. *)
BotOwnerNodes ==
    {n \in DOMAIN register_default_nodes :
        register_default_nodes[n].default_level = BOT_OWNER}

(* C27: after any sequence of management commands of actors below         *)
(* BOT_OWNER, a user who is not in the bot owners' allowlist passes        *)
(* check_permission for no node whose default level is BOT_OWNER and has   *)
(* a level below BOT_ADMIN.                                                *)
C27_NoEscalationToBotOwner ==
    \A u \in Commanders :
        /\ u.id \notin OWNER_IDS
        /\ \A n \in BotOwnerNodes :
                ~check_permission(Self, u, n, Ch1, G1, now).result
        /\ get_user_permission_level(Self, u, G1, now).level < BOT_ADMIN

-----------------------------------------------------------------------------
(* The step resets a guild: its configuration goes, or a reset_config     *)
(* entry comes into the log.                                               *)
ResetHappens ==
    \/ \E g \in DOMAIN guild_configs : g \notin DOMAIN guild_configs'
    \/ /\ Len(audit_log') > Len(audit_log)
       /\ audit_log'[Len(audit_log')].action = "reset_config"

(* The step is the reaction that confirms the waiting reset f. *)
Confirms(f) ==
    /\ f.task = "reset_config"
    /\ f \notin pending'
    /\ lastOp'.op = "reaction_add"
    /\ lastOp'.user.id = f.author.id
    /\ lastOp'.emoji = "confirm"
    /\ lastOp'.message = f.message
    /\ now - f.since < 30
    /\ \A g \in DOMAIN guild_configs :
            g \notin DOMAIN guild_configs' => g = f.guild.id

(* The step ends the waiting reset f as cancelled. *)
Cancels(f) ==
    /\ f.task = "reset_config"
    /\ f \notin pending'
    /\ lastOp'.op = "permissions-reset"
    /\ lastOp'.outcome = "cancelled"

(* The step sends the prompt of a reset. *)
Prompts ==
    CommandEnds("permissions-reset", "waiting") /\ pending' # pending

(* C24, amended: the reset is gated by the confirmation:                  *)
(* reset_guild_config runs only in the step in which the command's author  *)
(* adds the confirming reaction to the prompt, less than 30 s after the    *)
(* prompt; a reset that waits ends as cancelled only when 30 s have        *)
(* passed, and the cancellation changes no configuration, cache or log;    *)
(* the command up to its prompt changes nothing but the author's entry of  *)
(* user_permission_cache and the guild's default configuration, which its  *)
(* permission check stores.                                                *)
C24_ResetConfirmationGated ==
    [][/\ ResetHappens => \E f \in pending : Confirms(f)
       /\ \A f \in pending :
            Cancels(f) =>
                /\ now - f.since >= 30
                /\ UNCHANGED <<guild_configs, user_permission_cache,
                               permission_check_cache, audit_log>>
       /\ Prompts =>
            /\ UNCHANGED <<permission_check_cache, audit_log>>
            /\ guild_configs' \in
                  {guild_configs,
                   get_guild_config(guild_configs, lastOp'.guild.id)}
            /\ \A k \in (DOMAIN user_permission_cache
                            \cup DOMAIN user_permission_cache')
                         \ {<<lastOp'.user.id, lastOp'.guild.id>>} :
                    /\ k \in DOMAIN user_permission_cache
                    /\ k \in DOMAIN user_permission_cache'
                    /\ user_permission_cache'[k]
                          = user_permission_cache[k]]_vars

(* C24 as stated: reset_guild_config runs only on the author's            *)
(* confirming reaction within 30 s, and a reset that is not confirmed      *)
(* leaves the configurations, both caches and audit_log exactly as before  *)
(* the command: neither the command up to its prompt nor the cancellation  *)
(* changes any of them.                                                    *)
C24_UnconfirmedResetChangesNothing ==
    [][/\ ResetHappens => \E f \in pending : Confirms(f)
       /\ \A f \in pending : Cancels(f) => now - f.since >= 30
       /\ (Prompts \/ \E f \in pending : Cancels(f)) =>
            UNCHANGED <<guild_configs, user_permission_cache,
                        permission_check_cache, audit_log>>]_vars

(* A reset of a configured guild has ended as cancelled: role 101 is      *)
(* still mapped and the log still holds its entry.                         *)
C24_Witness ==
    /\ lastOp.op = "permissions-reset"
    /\ lastOp.outcome = "cancelled"
    /\ now >= 30
    /\ 10 \in DOMAIN guild_configs
    /\ 101 \in DOMAIN guild_configs[10].role_mappings
    /\ Len(audit_log) = 1
    /\ pending = {}

-----------------------------------------------------------------------------
(* The step is a check_permission or a get_user_permission_level that is  *)
(* answered from a cache, and the entry it returns.                        *)
CacheAnswer ==
    IF /\ check_count' = check_count + 1
       /\ lastOp'.op = "check_permission"
       /\ ~lastOp'.computed
    THEN {permission_check_cache[<<lastOp'.user.id, lastOp'.node,
                                   lastOp'.channel.id, lastOp'.guild.id>>]}
    ELSE IF /\ check_count' = check_count
            /\ cache_hits' = cache_hits + 1
            /\ lastOp'.op = "get_user_permission_level"
    THEN {user_permission_cache[<<lastOp'.user.id, lastOp'.guild.id>>]}
    ELSE {}

(* C28: with the mutating operations running as tasks that are suspended  *)
(* at their awaits, no check_permission and no get_user_permission_level   *)
(* that starts after an operation has changed the configuration in memory  *)
(* returns a cache entry computed before the change.                       *)
C28_NoStaleAnswerBetweenTasks ==
    [][\A entry \in CacheAnswer : ~entry.stale]_vars

====
